---- MODULE Spec2Model ----
(***************************************************************************)
(* Model of the NFL defense statistics pipeline: the /api/nfl-stats route  *)
(* handler GET (standings extraction, per-team enrichment, composite       *)
(* efficiency rating).                                                     *)
(*                                                                         *)
(* Units.  JavaScript numbers are modelled by integers.  The per-game      *)
(* fields (pointsAllowed, yardsAllowed, passYardsAllowed,                  *)
(* rushYardsAllowed) and dvoa are values rounded to one decimal by         *)
(* Math.round(x * 10) / 10; the model stores Math.round(x * 10), i.e. the  *)
(* value in tenths (20.0 is 200, 100.0 is 1000, 12.5 is 125).  Season      *)
(* totals and the count fields (sacks, interceptions, fumbles) are stored  *)
(* as they are.  The score is computed over exact fractions <<num, den>>.  *)
(***************************************************************************)
EXTENDS Integers, Sequences, FiniteSets, TLC

VARIABLES
    batch,          \* SpecScore: the array handed to computeEfficiencyRating
    scored,         \* SpecScore: computeEfficiencyRating has run on batch
    gsStats,        \* SpecGetStat: the flat stat array of a standings entry
    gsNames,        \* SpecGetStat: the candidate keys handed to getStat
    gsResult,       \* SpecGetStat: what getStat returned
    gsDone,         \* SpecGetStat: getStat has been called
    pc,             \* GET: where the handler stands
    standingsRes,   \* GET: how the standings fetch settled
    standingsData,  \* GET: <<name>> of the parsed standings document, <<>> before
    teams,          \* GET: the result of extractTeamsFromStandings
    task,           \* per team: where its fetchTeamDetailedStats call stands
    outcome,        \* per team: how its enrichment went
    statsData,      \* per team: <<name>> of the parsed statistics document, or <<>>
    base,           \* per team: the `base` object of its call
    settleOrder,    \* the teams' calls in the order they returned
    detailedStats,  \* the values Promise.all collects, <<>> in a slot not yet resolved
    response,       \* the response of GET, status 0 while there is none
    fetchCount,     \* number of per-team statistics fetches issued
    standingsFetches, \* GET: number of times fetch(standingsUrl) was called
    statsFetches,   \* per team: number of times its call called fetch(url)
    nflStats,       \* client: the state of the nflStats slice
    cpc,            \* SpecClient: where the one dispatched thunk stands
    retried,        \* SpecClient: Try Again has been clicked
    inFlight,       \* SpecStore: the dispatched requests that have not settled
    dispatched,     \* SpecStore: number of requests dispatched so far
    lastSettled,    \* SpecStore: how the request that settled last ended
    scorerRuns,     \* number of invocations of computeEfficiencyRating
    lastEvent       \* SpecStore: the action reduced last, or a render

scoreVars == <<batch, scored>>

getStatVars == <<gsStats, gsNames, gsResult, gsDone>>

getVars == <<pc, standingsRes, standingsData, teams, task, outcome, statsData,
             base, settleOrder, detailedStats, response, fetchCount, scorerRuns,
             standingsFetches, statsFetches>>

\* The handler's variables but its response.
handlerVars == <<pc, standingsRes, standingsData, teams, task, outcome, statsData,
                 base, settleOrder, detailedStats, fetchCount, scorerRuns,
                 standingsFetches, statsFetches>>

storeVars == <<nflStats>>

clientVars == <<cpc, retried>>

requestVars == <<inFlight, dispatched, lastSettled, lastEvent>>

vars == <<scoreVars, getStatVars, getVars, storeVars, clientVars, requestVars>>

\* What the actions of one part of the model leave alone.
notScoreVars == <<getStatVars, getVars, storeVars, clientVars, requestVars>>
notGetStatVars == <<scoreVars, getVars, storeVars, clientVars, requestVars>>
notGetVars == <<scoreVars, getStatVars, storeVars, clientVars, requestVars>>

(***************************************************************************)
(* Bounds of the model.                                                    *)
(***************************************************************************)
MaxBatch == 2
MaxTeams == 2
MaxStats == 2
MaxNames == 2
MaxRequests == 2

\* Values the five scored counters of a batch record are drawn from.
PointsVals == {0, 1, 3}
YardsVals  == {0, 2}
SacksVals  == {0, 1, 3}
IntVals    == {0, 1}
FumVals    == {0, 4}

(***************************************************************************)
(* computeEfficiencyRating                                                 *)
(***************************************************************************)
SetMin(S) == CHOOSE x \in S : \A y \in S : x <= y
SetMax(S) == CHOOSE x \in S : \A y \in S : x >= y

\* const vals = (fn) => ts.map(fn)
vals(ts, f) == [i \in 1..Len(ts) |-> ts[i][f]]

\* A defect of minMax: the first element is taken for the minimum, as if the
\* array were sorted.
minMaxFirstAsMin(arr) ==
    LET S == {arr[i] : i \in 1..Len(arr)}
    IN  [min |-> arr[1], max |-> SetMax(S)]

\* const minMax = (arr) => ({ min: Math.min(...arr), max: Math.max(...arr) })
minMax(arr) ==
    LET S == {arr[i] : i \in 1..Len(arr)}
    IN  [min |-> SetMin(S), max |-> SetMax(S)]

\* A defect of norm: a tied metric normalises to 0 instead of 0.5.
normTieZero(value, mm) ==
    IF mm.max = mm.min THEN <<0, 1>>
    ELSE <<value - mm.min, mm.max - mm.min>>

\* norm(value, mm) = mm.max === mm.min ? 0.5 : (value - mm.min) / (mm.max - mm.min)
\* as the fraction <<numerator, denominator>>, denominator > 0.
norm(value, mm) ==
    IF mm.max = mm.min THEN <<1, 2>>
    ELSE <<value - mm.min, mm.max - mm.min>>

\* Fractions <<numerator, denominator>> with denominator > 0, kept in lowest
\* terms so that the integers stay small.
RECURSIVE GCD(_, _)
GCD(a, b) == IF b = 0 THEN a ELSE GCD(b, a % b)
Abs(a) == IF a < 0 THEN -a ELSE a
FReduce(a) ==
    LET g == GCD(Abs(a[1]), a[2])
    IN  <<a[1] \div g, a[2] \div g>>
FAdd(a, b)   == FReduce(<<a[1] * b[2] + b[1] * a[2], a[2] * b[2]>>)
FScale(k, a) == FReduce(<<k * a[1], a[2]>>)
FInv(a)      == <<a[2] - a[1], a[2]>>          \* 1 - a

\* The weights of the score, in percent.
WPoints == 30
WYards  == 25
WSacks  == 20
WInt    == 15
WFum    == 10

\* A defect of the score's terms: yards allowed is scored like a counter where
\* more is better.
contributionYardsDirect(t, metric, mm) ==
    CASE metric = "pointsAllowed" -> FScale(WPoints, FInv(norm(t.pointsAllowed, mm)))
      [] metric = "yardsAllowed"  -> FScale(WYards, norm(t.yardsAllowed, mm))
      [] metric = "sacks"         -> FScale(WSacks, norm(t.sacks, mm))
      [] metric = "interceptions" -> FScale(WInt, norm(t.interceptions, mm))
      [] metric = "fumbles"       -> FScale(WFum, norm(t.fumbles, mm))

\* The five terms of the score of one team, each a fraction.
contribution(t, metric, mm) ==
    CASE metric = "pointsAllowed" -> FScale(WPoints, FInv(norm(t.pointsAllowed, mm)))
      [] metric = "yardsAllowed"  -> FScale(WYards, FInv(norm(t.yardsAllowed, mm)))
      [] metric = "sacks"         -> FScale(WSacks, norm(t.sacks, mm))
      [] metric = "interceptions" -> FScale(WInt, norm(t.interceptions, mm))
      [] metric = "fumbles"       -> FScale(WFum, norm(t.fumbles, mm))

\* A defect of score: the points term uses norm where it must use 1 - norm.
scoreNoInvert(t, pts, yds, sck, int, fum) ==
    FAdd(FScale(WPoints, norm(t.pointsAllowed, pts)),
    FAdd(contribution(t, "yardsAllowed", yds),
    FAdd(contribution(t, "sacks", sck),
    FAdd(contribution(t, "interceptions", int),
         contribution(t, "fumbles", fum)))))

\* A defect of score: the fumbles term weighs 20, so the weights sum to 110.
scoreOverweight(t, pts, yds, sck, int, fum) ==
    FAdd(contribution(t, "pointsAllowed", pts),
    FAdd(contribution(t, "yardsAllowed", yds),
    FAdd(contribution(t, "sacks", sck),
    FAdd(contribution(t, "interceptions", int),
         FScale(WSacks, norm(t.fumbles, fum))))))

\* A defect of score: the sacks term uses 1 - norm where it must use norm.
scoreSacksInverted(t, pts, yds, sck, int, fum) ==
    FAdd(contribution(t, "pointsAllowed", pts),
    FAdd(contribution(t, "yardsAllowed", yds),
    FAdd(FScale(WSacks, FInv(norm(t.sacks, sck))),
    FAdd(contribution(t, "interceptions", int),
         contribution(t, "fumbles", fum)))))

\* const score = (1 - norm(pts)) * 30 + (1 - norm(yds)) * 25 + norm(sck) * 20
\*             + norm(int) * 15 + norm(fum) * 10
score(t, pts, yds, sck, int, fum) ==
    FAdd(contribution(t, "pointsAllowed", pts),
    FAdd(contribution(t, "yardsAllowed", yds),
    FAdd(contribution(t, "sacks", sck),
    FAdd(contribution(t, "interceptions", int),
         contribution(t, "fumbles", fum)))))

\* Math.round(x * 10) for the fraction x: the nearest integer to 10 * x, a half
\* rounding up.  The stored dvoa is this number of tenths.
RoundTenths(x) == (20 * x[1] + x[2]) \div (2 * x[2])

\* A defect of the scorer: besides writing dvoa it reverses the array.
computeEfficiencyRatingReversed(ts) ==
    IF Len(ts) = 0 THEN ts
    ELSE
      LET pts == minMax(vals(ts, "pointsAllowed"))
          yds == minMax(vals(ts, "yardsAllowed"))
          sck == minMax(vals(ts, "sacks"))
          int == minMax(vals(ts, "interceptions"))
          fum == minMax(vals(ts, "fumbles"))
      IN  [i \in 1..Len(ts) |->
             [ts[Len(ts) + 1 - i] EXCEPT
                !.dvoa = RoundTenths(score(ts[Len(ts) + 1 - i], pts, yds, sck, int, fum))]]

\* function computeEfficiencyRating(teams): void -- writes dvoa of every team.
computeEfficiencyRating(ts) ==
    IF Len(ts) = 0 THEN ts
    ELSE
      LET pts == minMax(vals(ts, "pointsAllowed"))
          yds == minMax(vals(ts, "yardsAllowed"))
          sck == minMax(vals(ts, "sacks"))
          int == minMax(vals(ts, "interceptions"))
          fum == minMax(vals(ts, "fumbles"))
      IN  [i \in 1..Len(ts) |->
             [ts[i] EXCEPT
                !.dvoa = RoundTenths(score(ts[i], pts, yds, sck, int, fum))]]

(***************************************************************************)
(* JavaScript values.  An optional number (a field that may be undefined   *)
(* or null) is <<>> when missing and <<n>> when it is the number n.  A     *)
(* call that may throw returns [ok |-> FALSE, v |-> 0] when it throws.     *)
(***************************************************************************)
Missing == <<>>
Num(n) == <<n>>
Ok(n) == [ok |-> TRUE, v |-> n]
Throw == [ok |-> FALSE, v |-> 0]

\* parseFloat(s): the number a display string starts with; ok is FALSE for NaN.
parseFloat(s) ==
    CASE s = "340"  -> Ok(340)
      [] s = "374"  -> Ok(374)
      [] s = "310"  -> Ok(310)
      [] s = "10"   -> Ok(10)
      [] s = "7"    -> Ok(7)
      [] s = "7 L"  -> Ok(7)
      [] s = "340 pts" -> Ok(340)
      [] s = "324"  -> Ok(324)
      [] s = "6"    -> Ok(6)
      [] s = "0"    -> Ok(0)
      [] OTHER      -> Throw

\* String.prototype.toLowerCase on the names the documents use.
toLowerCase(s) ==
    CASE s = "Rushing"   -> "rushing"
      [] s = "PASSING"   -> "passing"
      [] s = "Defensive" -> "defensive"
      [] s = "totalyards" -> "totalyards"
      [] s = "totalYards" -> "totalyards"
      [] s = "netPassingYards" -> "netpassingyards"
      [] s = "rushingYards" -> "rushingyards"
      [] s = "defensiveInterceptions" -> "defensiveinterceptions"
      [] s = "fumblesForced" -> "fumblesforced"
      [] s = "Sacks" -> "sacks"
      [] OTHER -> s

Absent == "<undefined>"

(***************************************************************************)
(* extractTeamsFromStandings                                               *)
(***************************************************************************)
\* stat.value || parseFloat(stat.displayValue) || 0
StatNumber(stat) ==
    IF stat.value # Missing /\ stat.value[1] # 0 THEN stat.value[1]
    ELSE LET p == parseFloat(stat.displayValue)
         IN  IF p.ok /\ p.v # 0 THEN p.v ELSE 0

\* stats.find((s) => s.name === name || s.abbreviation === name || s.type === name):
\* the index of the first entry that matches, 0 when none does.
FindStatIndex(stats, name) ==
    LET M == {i \in 1..Len(stats) :
                \/ stats[i].name = name
                \/ stats[i].abbreviation = name
                \/ stats[i].type = name}
    IN  IF M = {} THEN 0 ELSE CHOOSE i \in M : \A j \in M : i <= j

\* A defect of getStat: the array is scanned once and the first entry that
\* matches any candidate wins (array order decides, not candidate order).
RECURSIVE getStatArrayOrder(_, _)
getStatArrayOrder(stats, names) ==
    IF stats = <<>> THEN 0
    ELSE IF \E k \in 1..Len(names) :
               \/ Head(stats).name = names[k]
               \/ Head(stats).abbreviation = names[k]
               \/ Head(stats).type = names[k]
         THEN StatNumber(Head(stats))
         ELSE getStatArrayOrder(Tail(stats), names)

\* const getStat = (names) => { for (const name of names) { const stat = stats.find(..);
\*   if (stat) return stat.value || parseFloat(stat.displayValue) || 0; } return 0; }
RECURSIVE getStat(_, _)
getStat(stats, names) ==
    IF names = <<>> THEN 0
    ELSE LET i == FindStatIndex(stats, Head(names))
         IN  IF i # 0 THEN StatNumber(stats[i])
             ELSE getStat(stats, Tail(names))

\* A defect of the inner loop: gamesPlayed has no default.
TeamOfEntryNoDefault(entry) ==
    LET stats == IF entry.stats = Missing THEN <<>> ELSE entry.stats[1]
    IN  [id |-> entry.team[1].id,
         abbr |-> entry.team[1].abbreviation,
         fullName |-> entry.team[1].displayName,
         logo |-> IF entry.team[1].logos = <<>> THEN "" ELSE entry.team[1].logos[1],
         pointsAllowed |-> getStat(stats, <<"pointsAllowed", "pointsAgainst", "PA">>),
         gamesPlayed |-> getStat(stats, <<"wins", "W">>)
                           + getStat(stats, <<"losses", "L">>)]

\* The body of the inner loop: one standings entry becomes one team.
TeamOfEntry(entry) ==
    LET stats == IF entry.stats = Missing THEN <<>> ELSE entry.stats[1]
        wins == getStat(stats, <<"wins", "W">>)
        losses == getStat(stats, <<"losses", "L">>)
        gamesPlayed == IF wins + losses # 0 THEN wins + losses ELSE 17
        pointsAllowed == getStat(stats, <<"pointsAllowed", "pointsAgainst", "PA">>)
    IN  [id |-> entry.team[1].id,
         abbr |-> entry.team[1].abbreviation,
         fullName |-> entry.team[1].displayName,
         logo |-> IF entry.team[1].logos = <<>> THEN "" ELSE entry.team[1].logos[1],
         pointsAllowed |-> pointsAllowed,
         gamesPlayed |-> gamesPlayed]

\* The entries the two loops visit, in the order they visit them: the entries
\* of every conference that has standings.entries, conference by conference.
RECURSIVE StandingsEntries(_)
StandingsEntries(children) ==
    IF children = <<>> THEN <<>>
    ELSE (IF Head(children).entries = Missing THEN <<>> ELSE Head(children).entries[1])
         \o StandingsEntries(Tail(children))

\* function extractTeamsFromStandings(data).  An entry without a team object
\* makes `team.id` throw a TypeError, which leaves the function.
extractTeamsFromStandings(data) ==
    IF data.children = Missing THEN [ok |-> TRUE, teams |-> <<>>]
    ELSE LET es == StandingsEntries(data.children[1])
         IN  IF \E i \in 1..Len(es) : es[i].team = Missing
             THEN [ok |-> FALSE, teams |-> <<>>]
             ELSE [ok |-> TRUE, teams |-> [i \in 1..Len(es) |-> TeamOfEntry(es[i])]]

(***************************************************************************)
(* fetchTeamDetailedStats                                                  *)
(***************************************************************************)
\* A defect of the per-game rule: the quotient is truncated to one decimal.
PerGameTruncated(total, gamesPlayed) ==
    IF gamesPlayed > 0 THEN (10 * total) \div gamesPlayed ELSE 0

\* gamesPlayed > 0 ? Math.round((total / gamesPlayed) * 10) / 10 : 0, in tenths.
PerGame(total, gamesPlayed) ==
    IF gamesPlayed > 0
    THEN (20 * total + gamesPlayed) \div (2 * gamesPlayed)
    ELSE 0

\* A defect of base: the standings-derived points allowed are dropped.
baseNoPoints(team) ==
    [team |-> team.abbr, fullName |-> team.fullName, logo |-> team.logo,
     pointsAllowed |-> 0,
     yardsAllowed |-> 0, passYardsAllowed |-> 0, rushYardsAllowed |-> 0,
     sacks |-> 0, interceptions |-> 0, fumbles |-> 0, dvoa |-> 0]

\* const base: TeamDefenseStats = { ... }
MkBase(team) ==
    [team |-> team.abbr, fullName |-> team.fullName, logo |-> team.logo,
     pointsAllowed |-> PerGame(team.pointsAllowed, team.gamesPlayed),
     yardsAllowed |-> 0, passYardsAllowed |-> 0, rushYardsAllowed |-> 0,
     sacks |-> 0, interceptions |-> 0, fumbles |-> 0, dvoa |-> 0]

\* categories.find((c) => c.name?.toLowerCase() === catName.toLowerCase()):
\* [ok, v] with v the index of the category, 0 when there is none.  A null
\* element met before a match makes `c.name` throw.
RECURSIVE FindCategory(_, _, _)
FindCategory(categories, i, catName) ==
    IF i > Len(categories) THEN Ok(0)
    ELSE IF categories[i].isNull THEN Throw
    ELSE IF categories[i].name # Absent
            /\ toLowerCase(categories[i].name) = toLowerCase(catName) THEN Ok(i)
    ELSE FindCategory(categories, i + 1, catName)

\* A defect of findStat: `return stat?.value` without `?? 0`; the missing
\* marker it then returns is written -1 (every number of a document is >= 0).
StatOfCategoryNoDefault(cat, statName) ==
    LET ss == IF cat.stats = Missing THEN <<>> ELSE cat.stats[1]
        M == {i \in 1..Len(ss) :
                ss[i].name # Absent /\ toLowerCase(ss[i].name) = toLowerCase(statName)}
    IN  IF M = {} THEN -1
        ELSE LET st == ss[CHOOSE i \in M : \A j \in M : i <= j]
             IN  IF st.value = Missing THEN -1 ELSE st.value[1]

\* cat.stats?.find((s) => s.name?.toLowerCase() === statName.toLowerCase());
\* return stat?.value ?? 0
StatOfCategory(cat, statName) ==
    LET ss == IF cat.stats = Missing THEN <<>> ELSE cat.stats[1]
        M == {i \in 1..Len(ss) :
                ss[i].name # Absent /\ toLowerCase(ss[i].name) = toLowerCase(statName)}
    IN  IF M = {} THEN 0
        ELSE LET st == ss[CHOOSE i \in M : \A j \in M : i <= j]
             IN  IF st.value = Missing THEN 0 ELSE st.value[1]

\* const findStat = (categories, catName, statName): number
findStat(categories, catName, statName) ==
    LET c == FindCategory(categories, 1, catName)
    IN  IF ~c.ok THEN Throw
        ELSE IF c.v = 0 THEN Ok(0)
        ELSE Ok(StatOfCategory(categories[c.v], statName))

\* const results = data.results || data
Results(data) == IF data.results # Missing THEN data.results[1] ELSE data.top

\* One assignment `base.f = <expression of findStat(..)>` of the try block.
\* s is [rec, threw]: the base object so far and whether the block has thrown;
\* once it has thrown the rest of the block is skipped.
Assign(s, f, r, perGame, gamesPlayed) ==
    IF s.threw THEN s
    ELSE IF ~r.ok THEN [s EXCEPT !.threw = TRUE]
    ELSE [s EXCEPT !.rec[f] = IF perGame THEN PerGame(r.v, gamesPlayed) ELSE r.v]

\* if (opponentCategories.length > 0) { yardsAllowed; passYardsAllowed; rushYardsAllowed }
ExtractOpponent(s, team, results) ==
    LET opponentCategories == IF results.opponent = Missing THEN <<>>
                              ELSE results.opponent[1]
    IN  IF Len(opponentCategories) = 0 THEN s
        ELSE
          LET s1 == Assign(s, "yardsAllowed",
                           findStat(opponentCategories, "rushing", "totalYards"),
                           TRUE, team.gamesPlayed)
              s2 == Assign(s1, "passYardsAllowed",
                           findStat(opponentCategories, "passing", "netPassingYards"),
                           TRUE, team.gamesPlayed)
          IN  Assign(s2, "rushYardsAllowed",
                     findStat(opponentCategories, "rushing", "rushingYards"),
                     TRUE, team.gamesPlayed)

\* if (teamCategories.length > 0) { sacks; interceptions; fumbles }
\* results.stats is the array itself, or an object holding `categories`.
ExtractDefensive(s, results) ==
    LET statsObj == results.stats
        teamCategories ==
            IF statsObj.kind = "array" THEN statsObj.list
            ELSE IF statsObj.kind = "categories" THEN statsObj.list
            ELSE <<>>
    IN  IF s.threw \/ Len(teamCategories) = 0 THEN s
        ELSE
          LET s1 == Assign(s, "sacks",
                           findStat(teamCategories, "defensive", "sacks"), FALSE, 0)
              s2 == Assign(s1, "interceptions",
                           findStat(teamCategories, "defensiveInterceptions",
                                    "interceptions"), FALSE, 0)
          IN  Assign(s2, "fumbles",
                     findStat(teamCategories, "general", "fumblesForced"), FALSE, 0)

\* The try block from `const results` to `return base`: the base object as
\* it is when the block returns or throws, and whether it threw.
Extract(b, team, data) ==
    ExtractDefensive(ExtractOpponent([rec |-> b, threw |-> FALSE], team, Results(data)),
                     Results(data))

(***************************************************************************)
(* Upstream documents the model draws from.                                *)
(***************************************************************************)
StandingsStat(name, abbreviation, type, value, displayValue) ==
    [name |-> name, abbreviation |-> abbreviation, type |-> type,
     value |-> value, displayValue |-> displayValue]

\* wins 10, losses 6, 324 points against, all under `name`: 16 games played,
\* 20.25 points per game, stored as 20.3.
EntryPHI ==
    [team |-> <<[id |-> "21", abbreviation |-> "PHI",
                 displayName |-> "Philadelphia Eagles", logos |-> <<"phi.png">>]>>,
     stats |-> <<<<StandingsStat("wins", "W", "wins", Num(10), "10"),
                   StandingsStat("losses", "L", "losses", Num(6), "6"),
                   StandingsStat("pointsAgainst", "PA", "pointsagainst", Num(324), "324")>>>>]

\* Points against found by abbreviation, the number only in displayValue; no
\* logo; no losses entry and wins that do not parse, so that gamesPlayed is
\* the default 17: 340 points against, 20.0 per game.
EntryDAL ==
    [team |-> <<[id |-> "6", abbreviation |-> "DAL",
                 displayName |-> "Dallas Cowboys", logos |-> <<>>]>>,
     stats |-> <<<<StandingsStat("pa", "PA", Absent, Missing, "340 pts"),
                   StandingsStat("w", "W", Absent, Missing, "-")>>>>]

\* An entry without a team object.
EntryNoTeam == [team |-> Missing, stats |-> Missing]

\* Standings entries are named by their team code in the state; Entry gives
\* the entry of a name.
GoodEntryNames == {"PHI", "DAL"}
EntryNames == GoodEntryNames \cup {"noTeam"}
Entry(name) ==
    CASE name = "PHI" -> EntryPHI
      [] name = "DAL" -> EntryDAL
      [] OTHER -> EntryNoTeam

Conference(es) == [entries |-> <<es>>]
ConferenceNoStandings == [entries |-> Missing]

\* The state names a standings document by its shape, the names of its
\* entries in document order and the number of entries of its first conference:
\* no `children`; or one or two conferences, each with or without
\* standings.entries, at most MaxTeams entries in all.
StandingsShapes == {"noChildren", "noStandings", "one", "oneThenNoStandings", "two"}
StandingsNames ==
    UNION {{[shape |-> sh, names |-> ns, first |-> k] : k \in 0..Len(ns)} :
           sh \in StandingsShapes,
           ns \in UNION {[1..n -> EntryNames] : n \in 0..MaxTeams}}

\* The document a name stands for.
StandingsDoc(d) ==
    LET es == [i \in 1..Len(d.names) |-> Entry(d.names[i])]
    IN  CASE d.shape = "noChildren" -> [children |-> Missing]
          [] d.shape = "noStandings" -> [children |-> <<<<ConferenceNoStandings>>>>]
          [] d.shape = "one" -> [children |-> <<<<Conference(es)>>>>]
          [] d.shape = "oneThenNoStandings" ->
               [children |-> <<<<Conference(es), ConferenceNoStandings>>>>]
          [] d.shape = "two" ->
               [children |-> <<<<Conference(SubSeq(es, 1, d.first)),
                                 Conference(SubSeq(es, d.first + 1, Len(es)))>>>>]

\* One name per document: the fields a shape does not read are fixed.
StandingsDocNames ==
    {d \in StandingsNames :
       /\ d.shape \in {"noChildren", "noStandings"} => d.names = <<>>
       /\ d.shape # "two" => d.first = 0}

CatStat(name, value) == [name |-> name, value |-> value]
Category(name, stats) == [isNull |-> FALSE, name |-> name, stats |-> <<stats>>]
NullCategory == [isNull |-> TRUE, name |-> Absent, stats |-> Missing]
NoStats == [kind |-> "none", list |-> <<>>]
EmptyBody == [opponent |-> Missing, stats |-> NoStats]

OpponentFull ==
    <<Category("Rushing", <<CatStat("totalYards", Num(5100)),
                            CatStat("rushingYards", Num(1700))>>),
      Category("PASSING", <<CatStat("netPassingYards", Num(3400))>>)>>

\* Every category present, names in mixed case: 300.0 / 200.0 / 100.0 yards
\* per game over 17 games (318.8 / 212.5 / 106.3 over 16), 40 sacks, 12 interceptions, 9 forced fumbles.
DocFull ==
    [results |-> Missing,
     top |-> [opponent |-> <<OpponentFull>>,
              stats |-> [kind |-> "categories",
                         list |-> <<Category("Defensive", <<CatStat("Sacks", Num(40))>>),
                                    Category("defensiveInterceptions",
                                             <<CatStat("interceptions", Num(12))>>),
                                    Category("general",
                                             <<CatStat("fumblesForced", Num(9))>>)>>]]]

\* Under `results`, stats an array; no passing category, rushingYards without
\* a value, no interceptions category: 350.0 yards per game, 30 sacks, 5 fumbles.
DocWrapped ==
    [results |-> <<[opponent |-> <<<<Category("rushing",
                                       <<CatStat("totalyards", Num(5950)),
                                         CatStat("rushingYards", Missing)>>)>>>>,
                    stats |-> [kind |-> "array",
                               list |-> <<Category("general",
                                                   <<CatStat("fumblesForced", Num(5))>>),
                                          Category("defensive",
                                                   <<CatStat("sacks", Num(30))>>)>>]]>>,
     top |-> EmptyBody]

\* The opponent categories are complete; the team categories hold a null.
DocNullDefensive ==
    [results |-> Missing,
     top |-> [opponent |-> <<OpponentFull>>,
              stats |-> [kind |-> "categories", list |-> <<NullCategory>>]]]

\* The opponent categories hold a null after the rushing category.
DocNullOpponent ==
    [results |-> Missing,
     top |-> [opponent |-> <<<<OpponentFull[1], NullCategory>>>>,
              stats |-> [kind |-> "categories",
                         list |-> <<Category("defensive", <<CatStat("sacks", Num(40))>>)>>]]]

\* Neither `opponent` nor `stats`.
DocEmpty == [results |-> Missing, top |-> EmptyBody]

\* The state names a statistics document; StatsDoc gives the document.
StatsDocNames == {"full", "wrapped", "nullDefensive", "nullOpponent", "empty"}
StatsDoc(name) ==
    CASE name = "full" -> DocFull
      [] name = "wrapped" -> DocWrapped
      [] name = "nullDefensive" -> DocNullDefensive
      [] name = "nullOpponent" -> DocNullOpponent
      [] OTHER -> DocEmpty

(***************************************************************************)
(* GET                                                                     *)
(***************************************************************************)
NoResponse ==
    [status |-> 0, error |-> "", stats |-> <<>>, lastUpdated |-> FALSE, source |-> ""]

\* A defect of the error response: the `{ status: 500 }` argument is left out.
ErrorResponseDefaultStatus(msg) ==
    [status |-> 200, error |-> msg, stats |-> <<>>, lastUpdated |-> FALSE, source |-> ""]

\* NextResponse.json({ error, stats: [] }, { status: 500 })
ErrorResponse(msg) ==
    [status |-> 500, error |-> msg, stats |-> <<>>, lastUpdated |-> FALSE, source |-> ""]

\* A defect of the success response: the source label is left out.
SuccessResponseNoSource(stats) ==
    [status |-> 200, error |-> "", stats |-> stats, lastUpdated |-> TRUE,
     source |-> ""]

\* NextResponse.json({ stats: detailedStats, lastUpdated, source })
SuccessResponse(stats) ==
    [status |-> 200, error |-> "", stats |-> stats, lastUpdated |-> TRUE,
     source |-> "ESPN API - 2024 Season"]

InitGet ==
    /\ pc = "start"
    /\ standingsRes = "none"
    /\ standingsData = <<>>
    /\ teams = <<>>
    /\ task = <<>>
    /\ outcome = <<>>
    /\ statsData = <<>>
    /\ base = <<>>
    /\ settleOrder = <<>>
    /\ detailedStats = <<>>
    /\ response = NoResponse
    /\ fetchCount = 0
    /\ scorerRuns = 0
    /\ standingsFetches = 0
    /\ statsFetches = <<>>

\* GET is called: the standings fetch is issued.
GetStart ==
    /\ pc = "start"
    /\ pc' = "awaitStandings"
    /\ standingsFetches' = standingsFetches + 1
    /\ UNCHANGED <<standingsRes, standingsData, teams, task, outcome, statsData,
                   base, settleOrder, detailedStats, response, fetchCount, scorerRuns,
                   statsFetches>>
    /\ UNCHANGED notGetVars

\* `await fetch(standingsUrl)` settles: it throws, or gives a response that is
\* ok or not.
StandingsFetchSettles ==
    /\ pc = "awaitStandings"
    /\ \E r \in {"ok", "notok", "throws"} :
         /\ standingsRes' = r
         /\ \/ /\ r = "ok"
               /\ pc' = "awaitStandingsJson"
               /\ UNCHANGED response
            \/ /\ r = "notok"
               /\ pc' = "done"
               /\ response' = ErrorResponse("Failed to fetch standings")
            \/ /\ r = "throws"
               /\ pc' = "done"
               /\ response' = ErrorResponse("Failed to fetch NFL statistics")
    /\ UNCHANGED <<standingsData, teams, task, outcome, statsData, base,
                   settleOrder, detailedStats, fetchCount, scorerRuns,
                   standingsFetches, statsFetches>>
    /\ UNCHANGED notGetVars

\* A defect of the join: values are collected in the order the calls return.
SlotArrival(i, k) == k + 1

\* The slot of Promise.all's result array that the value of the i-th promise
\* goes to, when k promises have resolved before it: its own index.
Slot(i, k) == i

\* A defect of the call: it rates its own record before it returns.
ReturnBaseScored(b) == computeEfficiencyRating(<<b>>)[1]

\* `return base`: what a call of fetchTeamDetailedStats returns.
ReturnBase(b) == b

\* Promise.all resolves once every promise has.
AllSettled(tk) == \A i \in 1..Len(tk) : tk[i] = "settled"

\* A defect of the call: a fetch that failed is issued once more before the
\* call returns base.
FetchesAfterRetry(n, how) == IF how \in {"notOk", "fetchThrew"} THEN n + 1 ELSE n

\* The number of fetches of a call that has issued n when it returns: every
\* path from `await fetch(url)` leads to a return without another fetch.
FetchesAfter(n, how) == n

\* The i-th call returns b: its promise resolves with b.
Settle(i, b, how) ==
    /\ statsFetches' = [statsFetches EXCEPT ![i] = FetchesAfter(@, how)]
    /\ task' = [task EXCEPT ![i] = "settled"]
    /\ outcome' = [outcome EXCEPT ![i] = how]
    /\ base' = [base EXCEPT ![i] = ReturnBase(b)]
    /\ settleOrder' = Append(settleOrder, i)
    /\ detailedStats' = [detailedStats EXCEPT
                           ![Slot(i, Len(settleOrder))] = <<ReturnBase(b)>>]

\* `await standingsRes.json()` settles, and the handler runs on to Promise.all:
\* extraction, the two early returns, and the start of every per-team call
\* (each builds its base object and issues its fetch).
StandingsJsonSettlesFrom(docs) ==
    /\ pc = "awaitStandingsJson"
    /\ \/ /\ standingsRes' = "badJson"
          /\ pc' = "done"
          /\ response' = ErrorResponse("Failed to fetch NFL statistics")
          /\ UNCHANGED <<standingsData, teams, task, outcome, statsData, base,
                         settleOrder, detailedStats, fetchCount, statsFetches>>
       \/ \E data \in docs :
            LET ex == extractTeamsFromStandings(StandingsDoc(data))
                n == Len(ex.teams)
            IN  /\ standingsData' = <<data>>
                /\ UNCHANGED standingsRes
                /\ \/ /\ ~ex.ok
                      /\ pc' = "done"
                      /\ response' = ErrorResponse("Failed to fetch NFL statistics")
                      /\ UNCHANGED <<teams, task, outcome, statsData, base,
                                     settleOrder, detailedStats, fetchCount,
                                     statsFetches>>
                   \/ /\ ex.ok /\ n = 0
                      /\ pc' = "done"
                      /\ response' = ErrorResponse("No teams found in standings")
                      /\ UNCHANGED <<teams, task, outcome, statsData, base,
                                     settleOrder, detailedStats, fetchCount,
                                     statsFetches>>
                   \/ /\ ex.ok /\ n > 0
                      /\ pc' = "awaitAll"
                      /\ teams' = ex.teams
                      /\ task' = [i \in 1..n |-> "fetching"]
                      /\ outcome' = [i \in 1..n |-> "pending"]
                      /\ statsData' = [i \in 1..n |-> <<>>]
                      /\ base' = [i \in 1..n |-> MkBase(ex.teams[i])]
                      /\ detailedStats' = [i \in 1..n |-> <<>>]
                      /\ fetchCount' = n
                      /\ statsFetches' = [i \in 1..n |-> 1]
                      /\ UNCHANGED <<response, settleOrder>>
    /\ UNCHANGED <<scorerRuns, standingsFetches>>
    /\ UNCHANGED notGetVars

StandingsJsonSettles == StandingsJsonSettlesFrom(StandingsDocNames)

\* A defect of the per-team call: without its try/catch a throwing fetch
\* leaves the call's promise unresolved for the join.
StatsFetchSettlesUncaught(i) ==
    /\ pc = "awaitAll"
    /\ task[i] = "fetching"
    /\ \/ /\ task' = [task EXCEPT ![i] = "parsing"]
          /\ UNCHANGED <<outcome, base, settleOrder, detailedStats, statsFetches>>
       \/ Settle(i, base[i], "notOk")
       \/ /\ task' = [task EXCEPT ![i] = "threw"]
          /\ outcome' = [outcome EXCEPT ![i] = "fetchThrew"]
          /\ UNCHANGED <<base, settleOrder, detailedStats, statsFetches>>
    /\ UNCHANGED <<pc, standingsRes, standingsData, teams, statsData, response,
                   fetchCount, scorerRuns, standingsFetches>>
    /\ UNCHANGED notGetVars

\* `await fetch(url)` of the i-th call settles.
StatsFetchSettles(i) ==
    /\ pc = "awaitAll"
    /\ task[i] = "fetching"
    /\ \/ /\ task' = [task EXCEPT ![i] = "parsing"]
          /\ UNCHANGED <<outcome, base, settleOrder, detailedStats, statsFetches>>
       \/ Settle(i, base[i], "notOk")           \* if (!res.ok) return base
       \/ Settle(i, base[i], "fetchThrew")      \* catch (err) { return base }
    /\ UNCHANGED <<pc, standingsRes, standingsData, teams, statsData, response,
                   fetchCount, scorerRuns, standingsFetches>>
    /\ UNCHANGED notGetVars

\* `await res.json()` of the i-th call settles and the call runs to its return.
StatsJsonSettles(i) ==
    /\ pc = "awaitAll"
    /\ task[i] = "parsing"
    /\ \/ /\ Settle(i, base[i], "jsonThrew")
          /\ UNCHANGED statsData
       \/ \E data \in StatsDocNames :
            LET e == Extract(base[i], teams[i], StatsDoc(data))
            IN  /\ statsData' = [statsData EXCEPT ![i] = <<data>>]
                /\ Settle(i, e.rec, IF e.threw THEN "extractThrew" ELSE "enriched")
    /\ UNCHANGED <<pc, standingsRes, standingsData, teams, response,
                   fetchCount, scorerRuns, standingsFetches>>
    /\ UNCHANGED notGetVars

\* Promise.all resolves; computeEfficiencyRating(detailedStats) runs and the
\* success response is returned.
GetRespond ==
    /\ pc = "awaitAll"
    /\ AllSettled(task)
    /\ \E rated \in {computeEfficiencyRating([k \in 1..Len(detailedStats) |->
                                                 detailedStats[k][1]])} :
           /\ detailedStats' = [k \in 1..Len(rated) |-> <<rated[k]>>]
           \* the array holds the base objects themselves: dvoa is written to them
           /\ base' = [i \in 1..Len(base) |->
                         LET k == CHOOSE k \in 1..Len(settleOrder) : settleOrder[k] = i
                         IN  rated[Slot(i, k - 1)]]
           /\ response' = SuccessResponse(rated)
    /\ scorerRuns' = scorerRuns + 1
    /\ pc' = "done"
    /\ UNCHANGED <<standingsRes, standingsData, teams, task, outcome, statsData,
                   settleOrder, fetchCount, standingsFetches, statsFetches>>
    /\ UNCHANGED notGetVars

(***************************************************************************)
(* The nflStats slice: state, reducers and the fetchNFLStats thunk.        *)
(***************************************************************************)
\* error: string | null
Null == "<null>"

initialState ==
    [defenseData |-> <<>>, loading |-> FALSE, error |-> Null,
     selectedMetric |-> "pointsAllowed", team1 |-> "PHI", team2 |-> "DAL"]

\* A defect of the pending case: the previous error is kept.
pendingKeepsError(state) == [state EXCEPT !.loading = TRUE]

\* .addCase(fetchNFLStats.pending, ...)
pending(state) == [state EXCEPT !.loading = TRUE, !.error = Null]

\* A defect of the fulfilled case: the selections are never moved to the
\* fetched teams.
fulfilledKeepsSelection(state, payload) ==
    [state EXCEPT !.loading = FALSE, !.defenseData = payload]

\* .addCase(fetchNFLStats.fulfilled, ...)
fulfilled(state, payload) ==
    LET s1 == [state EXCEPT !.loading = FALSE, !.defenseData = payload]
    IN  IF Len(payload) >= 2
        THEN [s1 EXCEPT !.team1 = payload[1].team, !.team2 = payload[2].team]
        ELSE s1

\* A defect of the rejected case: the loaded data is dropped with the error.
rejectedClearsData(state, payload) ==
    [state EXCEPT !.loading = FALSE,
                  !.defenseData = <<>>,
                  !.error = IF payload = Missing THEN "An unknown error occurred"
                            ELSE payload[1]]

\* .addCase(fetchNFLStats.rejected, ...): payload is <<message>>, or <<>> when
\* the action carries none.
rejected(state, payload) ==
    [state EXCEPT !.loading = FALSE,
                  !.error = IF payload = Missing THEN "An unknown error occurred"
                            ELSE payload[1]]

\* The action a settled thunk dispatches.
Fulfilled(payload) == [type |-> "fulfilled", payload |-> payload]
Rejected(message) == [type |-> "rejected", payload |-> <<message>>]

\* The slice reducer on the lifecycle action of a settled thunk.
reducer(state, action) ==
    IF action.type = "fulfilled" THEN fulfilled(state, action.payload)
    ELSE rejected(state, action.payload)

\* A defect of the payload creator: a list holding a record without yards is
\* treated as no data.
fetchNFLStatsStrict(res) ==
    IF res.status \notin 200..299
    THEN Rejected("Failed to fetch: " \o ToString(res.status))
    ELSE IF \A i \in 1..Len(res.stats) : res.stats[i].yardsAllowed > 0
         THEN Fulfilled(res.stats)
         ELSE Rejected("No data received from API")

\* A defect of the payload creator: the length of stats is not checked.
fetchNFLStatsAcceptEmpty(res) ==
    IF res.status \notin 200..299
    THEN Rejected("Failed to fetch: " \o ToString(res.status))
    ELSE Fulfilled(res.stats)

\* The payload creator of fetchNFLStats once fetch("/api/nfl-stats") has
\* resolved with the response res of the route handler.
fetchNFLStats(res) ==
    IF res.status \notin 200..299                          \* !response.ok
    THEN Rejected("Failed to fetch: " \o ToString(res.status))
    ELSE IF Len(res.stats) > 0 THEN Fulfilled(res.stats)
    ELSE Rejected("No data received from API")

\* reducers: setSelectedMetric, setTeam1, setTeam2
setSelectedMetric(state, payload) == [state EXCEPT !.selectedMetric = payload]
setTeam1(state, payload) == [state EXCEPT !.team1 = payload]
setTeam2(state, payload) == [state EXCEPT !.team2 = payload]

\* The records of the interface TeamDefenseStats with small counters.
TeamCodes == <<"PHI", "DAL", "NYG", "WSH">>

ScoreRecords ==
    [pointsAllowed : PointsVals, yardsAllowed : YardsVals, sacks : SacksVals,
     interceptions : IntVals, fumbles : FumVals]

\* The record fetchTeamDetailedStats returns for the i-th team, counters c.
MkRecord(i, c) ==
    [team |-> TeamCodes[i], fullName |-> TeamCodes[i], logo |-> "",
     pointsAllowed |-> c.pointsAllowed, yardsAllowed |-> c.yardsAllowed,
     passYardsAllowed |-> 0, rushYardsAllowed |-> 0,
     sacks |-> c.sacks, interceptions |-> c.interceptions,
     fumbles |-> c.fumbles, dvoa |-> 0]

\* The keys of the metric buttons.
MetricKeys == {"pointsAllowed", "yardsAllowed", "sacks", "interceptions", "dvoa"}

(***************************************************************************)
(* Selectors                                                               *)
(***************************************************************************)
\* a.localeCompare(b) for team codes: negative, zero or positive by their
\* alphabetical order.
Alphabet == <<"DAL", "NYG", "PHI", "WSH">>
localeCompare(a, b) ==
    (CHOOSE i \in 1..Len(Alphabet) : Alphabet[i] = a)
      - (CHOOSE i \in 1..Len(Alphabet) : Alphabet[i] = b)

\* The comparator given to sort.
compare(a, b, metric) ==
    LET diff == IF metric \in {"pointsAllowed", "yardsAllowed"}
                THEN a[metric] - b[metric]
                ELSE b[metric] - a[metric]
    IN  IF diff # 0 THEN diff ELSE localeCompare(a.team, b.team)

\* Array.prototype.sort with the comparator: stable, so x goes before the
\* first element that compares greater than it.
Insert(out, x, metric) ==
    LET later == {k \in 1..Len(out) : compare(out[k], x, metric) > 0}
    IN  IF later = {} THEN Append(out, x)
        ELSE SubSeq(out, 1, SetMin(later) - 1) \o <<x>>
               \o SubSeq(out, SetMin(later), Len(out))

RECURSIVE sort(_, _)
sort(arr, metric) ==
    IF Len(arr) = 0 THEN arr
    ELSE Insert(sort(SubSeq(arr, 1, Len(arr) - 1), metric), arr[Len(arr)], metric)

\* A defect of the selector: data.sort(...) without the copy sorts the array
\* of the store.
selectSortedDataInPlace(state) ==
    LET sorted == sort(state.defenseData, state.selectedMetric)
    IN  [result |-> sorted, state |-> [state EXCEPT !.defenseData = sorted]]

\* selectSortedData: [...data].sort(...), with the state as the call leaves it
\* (sort works on the copy).
selectSortedData(state) ==
    LET copy == state.defenseData
    IN  [result |-> sort(copy, state.selectedMetric), state |-> state]

\* data.find((t) => t.team === code): the index of the first match, 0 if none.
find(data, code) ==
    IF \E i \in 1..Len(data) : data[i].team = code
    THEN SetMin({i \in 1..Len(data) : data[i].team = code})
    ELSE 0

\* Math.max(...data.map((t) => t[f])) || 1.  The substitute is used only when
\* every value of the field is 0, where the results do not depend on its unit.
maxOr1(data, f) ==
    LET m == SetMax({data[i][f] : i \in 1..Len(data)})
    IN  IF m = 0 THEN 1 ELSE m

\* Math.round(n / d) for d > 0: the nearest integer, a half rounding up.
Round(n, d) == (2 * n + d) \div (2 * d)

\* A defect of the radar values: points and yards allowed are not inverted.
radarValueDirect(x, max, inverted) == Round(x * 100, max)

\* Math.round(((max - x) / max) * 100) where lower is better, and
\* Math.round((x / max) * 100) where higher is better.
radarValue(x, max, inverted) ==
    Round((IF inverted THEN max - x ELSE x) * 100, max)

\* One row of the radar data; the fields team1 and team2 stand for the keys
\* [team1] and [team2].
radarRow(stat, f, inverted, data, t1, t2) ==
    [stat |-> stat,
     team1 |-> radarValue(t1[f], maxOr1(data, f), inverted),
     team2 |-> radarValue(t2[f], maxOr1(data, f), inverted),
     fullMark |-> 100]

\* selectRadarData
selectRadarData(state) ==
    LET data == state.defenseData
        i1 == find(data, state.team1)
        i2 == find(data, state.team2)
    IN  IF i1 = 0 \/ i2 = 0 THEN <<>>
        ELSE <<radarRow("Points Allowed", "pointsAllowed", TRUE, data, data[i1], data[i2]),
               radarRow("Yards Allowed", "yardsAllowed", TRUE, data, data[i1], data[i2]),
               radarRow("Sacks", "sacks", FALSE, data, data[i1], data[i2]),
               radarRow("Interceptions", "interceptions", FALSE, data, data[i1], data[i2]),
               radarRow("Forced Fumbles", "fumbles", FALSE, data, data[i1], data[i2])>>

InitStore == nflStats = initialState

InitClient ==
    /\ cpc = "idle"
    /\ retried = FALSE

\* What happened to the store last: a reduced action with its payload, or a
\* render of the component.
Event(type, payload) == [type |-> type, payload |-> payload]

InitRequests ==
    /\ inFlight = {}
    /\ dispatched = 0
    /\ lastSettled = "none"
    /\ lastEvent = Event("none", <<>>)

InitGetStat ==
    /\ gsStats = <<>>
    /\ gsNames = <<>>
    /\ gsResult = 0
    /\ gsDone = FALSE

Init ==
    /\ InitGet /\ InitGetStat /\ batch = <<>> /\ scored = FALSE
    /\ InitStore /\ InitClient /\ InitRequests

Next ==
    \/ GetStart
    \/ StandingsFetchSettles
    \/ StandingsJsonSettles
    \/ \E i \in 1..Len(task) : StatsFetchSettles(i)
    \/ \E i \in 1..Len(task) : StatsJsonSettles(i)
    \/ GetRespond

Spec == Init /\ [][Next]_vars

(***************************************************************************)
(* SpecClient: the component dispatches fetchNFLStats on mount and again   *)
(* from the error view; each dispatch runs the thunk, whose request runs   *)
(* GET.  One request is in flight at a time.  The standings documents are  *)
(* those of a single conference.                                           *)
(***************************************************************************)
ClientStandingsDocNames ==
    {d \in StandingsDocNames : d.shape \in {"noChildren", "one"}}

\* A new invocation of GET: the locals of the handler are new.
FreshGet ==
    /\ pc' = "start"
    /\ standingsRes' = "none"
    /\ standingsData' = <<>>
    /\ teams' = <<>>
    /\ task' = <<>>
    /\ outcome' = <<>>
    /\ statsData' = <<>>
    /\ base' = <<>>
    /\ settleOrder' = <<>>
    /\ detailedStats' = <<>>
    /\ response' = NoResponse
    /\ fetchCount' = 0
    /\ scorerRuns' = 0
    /\ standingsFetches' = 0
    /\ statsFetches' = <<>>

\* dispatch(fetchNFLStats()): by the mount effect, or by the Try Again button
\* of the error view (shown when loading is false and error is set).  The
\* pending action is reduced and the thunk calls fetch("/api/nfl-stats").
DispatchFetch ==
    /\ \/ cpc = "idle"
       \/ cpc = "settled" /\ ~nflStats.loading /\ nflStats.error # Null
    /\ nflStats' = pending(nflStats)
    /\ cpc' = "waiting"
    /\ retried' = (retried \/ cpc = "settled")
    /\ FreshGet
    /\ UNCHANGED <<scoreVars, getStatVars, requestVars>>

\* fetch("/api/nfl-stats") throws: the request does not reach the handler.
ApiCallFails ==
    /\ cpc = "waiting"
    /\ pc = "start"
    /\ nflStats' = reducer(nflStats, Rejected("Failed to fetch"))
    /\ cpc' = "settled"
    /\ UNCHANGED <<retried, getVars, scoreVars, getStatVars, requestVars>>

\* The handler has responded: the thunk settles and its action is reduced.
ThunkSettles ==
    /\ cpc = "waiting"
    /\ pc = "done"
    /\ nflStats' = reducer(nflStats, fetchNFLStats(response))
    /\ cpc' = "settled"
    /\ UNCHANGED <<retried, getVars, scoreVars, getStatVars, requestVars>>

NextClient ==
    \/ DispatchFetch
    \/ ApiCallFails
    \/ ThunkSettles
    \/ cpc = "waiting" /\ GetStart
    \/ StandingsFetchSettles
    \/ StandingsJsonSettlesFrom(ClientStandingsDocNames)
    \/ \E i \in 1..Len(task) : StatsFetchSettles(i)
    \/ \E i \in 1..Len(task) : StatsJsonSettles(i)
    \/ GetRespond

SpecClient == Init /\ [][NextClient]_vars

\* SpecClientLive: SpecClient when every issued fetch settles and every
\* continuation that is ready to run is run by the event loop.  Dispatching
\* (the mount effect, the Try Again button) is not forced.
ApiCallSettles == (cpc = "waiting" /\ GetStart) \/ ApiCallFails

FetchSettles ==
    \/ StandingsFetchSettles
    \/ StandingsJsonSettlesFrom(ClientStandingsDocNames)
    \/ \E i \in 1..Len(task) : StatsFetchSettles(i)
    \/ \E i \in 1..Len(task) : StatsJsonSettles(i)

\* The steps of GetRespond, told by the handler's position alone: Promise.all
\* has resolved and the handler returns.
Responds == pc = "awaitAll" /\ AllSettled(task) /\ pc' = "done"

SpecClientLive ==
    /\ SpecClient
    /\ WF_vars(ApiCallSettles)
    /\ WF_vars(FetchSettles)
    /\ WF_pc(Responds)
    /\ WF_vars(ThunkSettles)

(***************************************************************************)
(* SpecStore: the slice under at most MaxRequests dispatches of            *)
(* fetchNFLStats that may overlap (the mount effect may run more than      *)
(* once); each request settles fulfilled with a non-empty list or rejected *)
(* with a message, in any order.                                           *)
(***************************************************************************)
\* Counters of records with and without ties, and with every counter at 0.
SelectorRecords ==
    {[pointsAllowed |-> 0, yardsAllowed |-> 0, sacks |-> 0, interceptions |-> 0,
      fumbles |-> 0],
     [pointsAllowed |-> 1, yardsAllowed |-> 2, sacks |-> 3, interceptions |-> 1,
      fumbles |-> 0],
     [pointsAllowed |-> 3, yardsAllowed |-> 2, sacks |-> 1, interceptions |-> 0,
      fumbles |-> 4],
     [pointsAllowed |-> 3, yardsAllowed |-> 0, sacks |-> 3, interceptions |-> 1,
      fumbles |-> 4]}

\* The scored lists of two teams with these counters, and those of three
\* teams in which the first and the third have the same counters.
RatedBatches ==
    {computeEfficiencyRating(<<MkRecord(1, a), MkRecord(2, b)>>) :
       a \in SelectorRecords, b \in SelectorRecords}
      \cup {computeEfficiencyRating(<<MkRecord(1, a), MkRecord(2, b), MkRecord(3, a)>>) :
              a \in SelectorRecords, b \in SelectorRecords}

\* The stats lists of the 200 responses: one team, two teams without
\* statistics, and the scored lists.
Payloads ==
    {<<MkBase(TeamOfEntry(EntryPHI))>>,
     <<MkBase(TeamOfEntry(EntryDAL)), MkBase(TeamOfEntry(EntryPHI))>>}
      \cup RatedBatches

\* The responses fetch("/api/nfl-stats") may resolve with: 200 with a list,
\* 200 with stats empty or missing, the handler's 500, and a 404.
ApiResponses ==
    {SuccessResponse(p) : p \in Payloads}
      \cup {SuccessResponse(<<>>),
            ErrorResponse("Failed to fetch standings"),
            [ErrorResponse("Not Found") EXCEPT !.status = 404]}

\* The messages of the errors fetch or response.json() may throw.
Messages == {"Failed to fetch: 500", "No data received from API", "Failed to fetch"}

\* dispatch(fetchNFLStats()): the pending action is reduced at once.
Dispatch ==
    /\ dispatched < MaxRequests
    /\ dispatched' = dispatched + 1
    /\ inFlight' = inFlight \cup {dispatched + 1}
    /\ nflStats' = pending(nflStats)
    /\ lastEvent' = Event("pending", <<>>)
    /\ UNCHANGED <<lastSettled, clientVars, getVars, scoreVars, getStatVars>>

\* Request r settles with data: the fulfilled action is reduced.
SettleFulfilled(r) ==
    /\ r \in inFlight
    /\ \E res \in ApiResponses :
         /\ fetchNFLStats(res).type = "fulfilled"
         /\ nflStats' = reducer(nflStats, fetchNFLStats(res))
         /\ lastEvent' = fetchNFLStats(res)
         /\ response' = res
    /\ inFlight' = inFlight \ {r}
    /\ lastSettled' = "fulfilled"
    /\ UNCHANGED <<dispatched, clientVars, handlerVars, scoreVars, getStatVars>>

\* Request r settles with an error: fetch or json() threw, or the thunk
\* rejected the response; the rejected action is reduced.
SettleRejected(r) ==
    /\ r \in inFlight
    /\ \/ \E m \in Messages :
            /\ nflStats' = reducer(nflStats, Rejected(m))
            /\ lastEvent' = Rejected(m)
            /\ response' = NoResponse
       \/ \E res \in ApiResponses :
            /\ fetchNFLStats(res).type = "rejected"
            /\ nflStats' = reducer(nflStats, fetchNFLStats(res))
            /\ lastEvent' = fetchNFLStats(res)
            /\ response' = res
    /\ inFlight' = inFlight \ {r}
    /\ lastSettled' = "rejected"
    /\ UNCHANGED <<dispatched, clientVars, handlerVars, scoreVars, getStatVars>>

\* The main view is rendered: neither the loading nor the error view.
MainView == ~nflStats.loading /\ nflStats.error = Null

\* The team codes the two selectors offer.
Options == {nflStats.defenseData[i].team : i \in 1..Len(nflStats.defenseData)}

\* A metric button is clicked.
SelectMetric ==
    /\ MainView
    /\ \E m \in MetricKeys :
         /\ nflStats' = setSelectedMetric(nflStats, m)
         /\ lastEvent' = Event("setSelectedMetric", <<m>>)
    /\ UNCHANGED <<inFlight, dispatched, lastSettled>>
    /\ UNCHANGED <<clientVars, getVars, scoreVars, getStatVars>>

\* A team is chosen in the first or in the second selector.
SelectTeam1 ==
    /\ MainView
    /\ \E t \in Options :
         /\ nflStats' = setTeam1(nflStats, t)
         /\ lastEvent' = Event("setTeam1", <<t>>)
    /\ UNCHANGED <<inFlight, dispatched, lastSettled>>
    /\ UNCHANGED <<clientVars, getVars, scoreVars, getStatVars>>

SelectTeam2 ==
    /\ MainView
    /\ \E t \in Options :
         /\ nflStats' = setTeam2(nflStats, t)
         /\ lastEvent' = Event("setTeam2", <<t>>)
    /\ UNCHANGED <<inFlight, dispatched, lastSettled>>
    /\ UNCHANGED <<clientVars, getVars, scoreVars, getStatVars>>

\* The main view renders: the bar chart reads selectSortedData and the radar
\* chart selectRadarData, which only reads.
Render ==
    /\ MainView
    /\ nflStats' = selectSortedData(nflStats).state
    /\ lastEvent' = Event("render", <<>>)
    /\ UNCHANGED <<inFlight, dispatched, lastSettled>>
    /\ UNCHANGED <<clientVars, getVars, scoreVars, getStatVars>>

NextStore ==
    \/ Dispatch
    \/ SelectMetric
    \/ SelectTeam1
    \/ SelectTeam2
    \/ Render
    \/ \E r \in 1..MaxRequests : SettleFulfilled(r)
    \/ \E r \in 1..MaxRequests : SettleRejected(r)

SpecStore == Init /\ [][NextStore]_vars

(***************************************************************************)
(* SpecScore: computeEfficiencyRating applied to every batch of at most    *)
(* MaxBatch records with non-negative counters.                            *)
(***************************************************************************)
InitScore ==
    /\ batch = <<>>
    /\ scored = FALSE
    /\ InitGet
    /\ InitGetStat
    /\ InitStore /\ InitClient /\ InitRequests

\* The caller collects one more record into the array to be scored.
AddTeam ==
    /\ ~scored
    /\ Len(batch) < MaxBatch
    /\ \E c \in ScoreRecords : batch' = Append(batch, MkRecord(Len(batch) + 1, c))
    /\ UNCHANGED scored
    /\ UNCHANGED notScoreVars

ScoreBatch ==
    /\ ~scored
    /\ batch' = computeEfficiencyRating(batch)
    /\ scored' = TRUE
    /\ UNCHANGED notScoreVars

NextScore == AddTeam \/ ScoreBatch

SpecScore == InitScore /\ [][NextScore]_vars

(***************************************************************************)
(* SpecGetStat: getStat applied to every stat array of at most MaxStats    *)
(* entries and every list of at most MaxNames candidate keys.              *)
(***************************************************************************)
StatPool ==
    {StandingsStat("pointsAgainst", "PA", "pointsagainst", Num(310), "310"),
     StandingsStat("totalPointsAgainst", Absent, Absent, Num(340), "340"),
     StandingsStat("differential", "PA", Absent, Missing, "374"),
     StandingsStat("streak", Absent, "totalPointsAgainst", Missing, "-"),
     StandingsStat("wins", "W", "wins", Num(10), "10")}

NamePool == {"totalPointsAgainst", "pointsAgainst", "PA", "losses"}

InitGetStatSpec ==
    /\ InitGetStat
    /\ InitGet
    /\ batch = <<>>
    /\ scored = FALSE
    /\ InitStore /\ InitClient /\ InitRequests

\* The standings entry holds one more stat.
AddStat ==
    /\ ~gsDone
    /\ Len(gsStats) < MaxStats
    /\ \E st \in StatPool : gsStats' = Append(gsStats, st)
    /\ UNCHANGED <<gsNames, gsResult, gsDone>>
    /\ UNCHANGED notGetStatVars

\* The caller lists one more candidate key.
AddName ==
    /\ ~gsDone
    /\ Len(gsNames) < MaxNames
    /\ \E n \in NamePool : gsNames' = Append(gsNames, n)
    /\ UNCHANGED <<gsStats, gsResult, gsDone>>
    /\ UNCHANGED notGetStatVars

\* getStat(names) is called.
CallGetStat ==
    /\ ~gsDone
    /\ gsResult' = getStat(gsStats, gsNames)
    /\ gsDone' = TRUE
    /\ UNCHANGED <<gsStats, gsNames>>
    /\ UNCHANGED notGetStatVars

NextGetStat == AddStat \/ AddName \/ CallGetStat

SpecGetStat == InitGetStatSpec /\ [][NextGetStat]_vars

(***************************************************************************)
(* Claims about computeEfficiencyRating, checked under SpecScore.          *)
(***************************************************************************)
Metrics == {"pointsAllowed", "yardsAllowed", "sacks", "interceptions", "fumbles"}

Weight(m) ==
    CASE m = "pointsAllowed" -> WPoints
      [] m = "yardsAllowed"  -> WYards
      [] m = "sacks"         -> WSacks
      [] m = "interceptions" -> WInt
      [] m = "fumbles"       -> WFum

\* Metric m has the same value for every record of the batch.
Tied(m) == \A i, j \in 1..Len(batch) : batch[i][m] = batch[j][m]

\* Record i is at least as good as every record of the batch on all five metrics.
Best(i) ==
    \A j \in 1..Len(batch) :
        /\ batch[i].pointsAllowed <= batch[j].pointsAllowed
        /\ batch[i].yardsAllowed <= batch[j].yardsAllowed
        /\ batch[i].sacks >= batch[j].sacks
        /\ batch[i].interceptions >= batch[j].interceptions
        /\ batch[i].fumbles >= batch[j].fumbles

\* Half the weight of metric m, in tenths, when m is tied; else 0.
TiedHalf(m) == IF Tied(m) THEN 5 * Weight(m) ELSE 0

\* C1: after computeEfficiencyRating has run on a non-empty batch of records
\* with non-negative counters, every dvoa lies in [0, 100] (0..1000 tenths).
C1_DvoaInRange ==
    scored => \A i \in 1..Len(batch) : batch[i].dvoa >= 0 /\ batch[i].dvoa <= 1000

\* A scored two-team batch holding both ends of the range.
C1_Witness ==
    /\ scored
    /\ Len(batch) = 2
    /\ batch[1].dvoa = 1000
    /\ batch[2].dvoa = 0

\* C4, as claimed: in every scored batch, single-team and tied batches
\* included, a record that is best on all five metrics has dvoa 100.0.
C4_BestGets100 ==
    scored => \A i \in 1..Len(batch) : Best(i) => batch[i].dvoa = 1000

\* C4, amended: a record that is best on all five metrics has dvoa 100.0 less
\* half the weight of every metric tied across the whole batch; so exactly
\* 100.0 when no metric is tied.
C4_BestGets100UnlessTied ==
    scored =>
      \A i \in 1..Len(batch) :
        Best(i) =>
          /\ batch[i].dvoa =
                1000 - (TiedHalf("pointsAllowed") + TiedHalf("yardsAllowed")
                        + TiedHalf("sacks") + TiedHalf("interceptions")
                        + TiedHalf("fumbles"))
          /\ (\A m \in Metrics : ~Tied(m)) => batch[i].dvoa = 1000

\* A scored batch without a tied metric whose first record is best on all five.
C4_Witness ==
    /\ scored
    /\ Len(batch) = 2
    /\ Best(1)
    /\ \A m \in Metrics : ~Tied(m)
    /\ batch[1].dvoa = 1000

\* C5: a metric with the same value for every team contributes exactly half
\* its weight to every team's score, and a single-team batch gets dvoa 50.0.
C5_TiedHalfWeight ==
    (scored /\ Len(batch) > 0) =>
      /\ \A m \in Metrics :
           Tied(m) =>
             \A i \in 1..Len(batch) :
               LET c == contribution(batch[i], m, minMax(vals(batch, m)))
               IN  2 * c[1] = Weight(m) * c[2]
      /\ (\A m \in Metrics : Tied(m)) =>
           \A i \in 1..Len(batch) : batch[i].dvoa = 500
      /\ Len(batch) = 1 => batch[1].dvoa = 500

\* A scored two-team batch where sacks are tied and the points are not.
C5_Witness ==
    /\ scored
    /\ Len(batch) = 2
    /\ Tied("sacks")
    /\ ~Tied("pointsAllowed")

(***************************************************************************)
(* Claims about GET, checked under Spec.                                   *)
(***************************************************************************)
\* GET has returned the success envelope.
Succeeded == pc = "done" /\ response.status = 200

\* The entries of the parsed standings document, in document order.
DocEntries ==
    IF standingsData = <<>> THEN <<>>
    ELSE LET d == StandingsDoc(standingsData[1])
         IN  IF d.children = Missing THEN <<>> ELSE StandingsEntries(d.children[1])

\* The fields the statistics document supplies are all at their default.
ZeroEnrichment(r) ==
    /\ r.yardsAllowed = 0 /\ r.passYardsAllowed = 0 /\ r.rushYardsAllowed = 0
    /\ r.sacks = 0 /\ r.interceptions = 0 /\ r.fumbles = 0

NonDvoa(r) == [r EXCEPT !.dvoa = 0]

\* The statistics fetch of team i threw or returned a non-success status.
FetchFailed(i) == outcome[i] \in {"notOk", "fetchThrew"}

\* The enrichment of team i failed or threw at some step.
EnrichmentFailed(i) == outcome[i] \in {"notOk", "fetchThrew", "jsonThrew", "extractThrew"}

\* The record the call for team i returns from what it was given alone: the
\* team, how its requests went and its statistics document.
OwnRecord(i) ==
    IF outcome[i] \in {"notOk", "fetchThrew", "jsonThrew"} THEN MkBase(teams[i])
    ELSE Extract(MkBase(teams[i]), teams[i], StatsDoc(statsData[i][1])).rec

\* The record the call for team i returns when its statistics fetch succeeds.
NoFailureRecord(i) ==
    IF outcome[i] = "jsonThrew" THEN MkBase(teams[i])
    ELSE Extract(MkBase(teams[i]), teams[i], StatsDoc(statsData[i][1])).rec

\* C2: whichever statistics fetches throw or return a non-success status, the
\* request ends with the success envelope holding one record per standings
\* entry; a team whose fetch failed has zero yards, sacks, interceptions and
\* fumbles and keeps its code, name, logo and standings-derived pointsAllowed;
\* every other team has the non-dvoa fields it has when no fetch fails.
C2_BatchResilience ==
    (pc = "done" /\ teams # <<>>) =>
      /\ response.status = 200
      /\ Len(response.stats) = Len(DocEntries)
      /\ \A i \in 1..Len(response.stats) :
           LET r == response.stats[i]
               e == DocEntries[i].team[1]
           IN  IF FetchFailed(i)
               THEN /\ ZeroEnrichment(r)
                    /\ r.team = e.abbreviation
                    /\ r.fullName = e.displayName
                    /\ r.logo = (IF e.logos = <<>> THEN "" ELSE e.logos[1])
                    /\ r.pointsAllowed =
                         PerGame(teams[i].pointsAllowed, teams[i].gamesPlayed)
               ELSE NonDvoa(r) = NonDvoa(NoFailureRecord(i))

\* The fetch of PHI threw and that of DAL succeeded: two records, PHI with
\* 20.3 points allowed and no yards, DAL enriched.
C2_Witness ==
    /\ Succeeded
    /\ Len(response.stats) = 2
    /\ outcome[1] = "fetchThrew"
    /\ response.stats[1].team = "PHI"
    /\ response.stats[1].pointsAllowed = 203
    /\ response.stats[1].yardsAllowed = 0
    /\ outcome[2] = "enriched"
    /\ response.stats[2].yardsAllowed > 0

\* C3: when the standings fetch returns a non-success status, or the standings
\* document holds no team, GET answers 500 with { error, stats: [] }, issues
\* no per-team fetch and does not run the scorer.
C3_PrimaryFailureIsFatal ==
    (pc = "done"
     /\ (standingsRes = "notok" \/ (standingsData # <<>> /\ DocEntries = <<>>))) =>
      /\ response.status = 500
      /\ response.error # ""
      /\ response.stats = <<>>
      /\ ~response.lastUpdated
      /\ fetchCount = 0
      /\ task = <<>>
      /\ scorerRuns = 0

\* The standings document has one conference without entries and one without
\* standings: the request fails with "No teams found in standings".
C3_Witness ==
    /\ pc = "done"
    /\ standingsRes = "ok"
    /\ standingsData = <<[shape |-> "oneThenNoStandings", names |-> <<>>, first |-> 0]>>
    /\ response.status = 500
    /\ response.error = "No teams found in standings"

\* C6: computeEfficiencyRating runs at most once in a request and only when
\* every per-team call has returned, over the records of all teams; while a
\* call is pending no record has a dvoa written.
C6_ScorerAfterAllSettled ==
    /\ scorerRuns <= 1
    /\ scorerRuns = 1 =>
         /\ teams # <<>>
         /\ \A i \in 1..Len(teams) : task[i] = "settled"
         /\ Len(response.stats) = Len(teams)
    /\ (\E i \in 1..Len(task) : task[i] # "settled") =>
         /\ scorerRuns = 0
         /\ \A i \in 1..Len(base) : base[i].dvoa = 0
         /\ \A k \in 1..Len(detailedStats) :
              detailedStats[k] # <<>> => detailedStats[k][1].dvoa = 0

\* The scorer has run over two teams, the second of which returned first.
C6_Witness ==
    /\ scorerRuns = 1
    /\ Len(teams) = 2
    /\ settleOrder = <<2, 1>>
    /\ outcome[1] = "enriched"
    /\ outcome[2] = "fetchThrew"
    /\ response.stats[1].dvoa # response.stats[2].dvoa

\* C7: the stats list of the success envelope is a function of the upstream
\* documents and of how each request went, in standings document order,
\* whatever the order in which the per-team calls returned.
C7_Deterministic ==
    Succeeded =>
      /\ response.stats =
           computeEfficiencyRating([i \in 1..Len(teams) |-> OwnRecord(i)])
      /\ Len(response.stats) = Len(DocEntries)
      /\ \A i \in 1..Len(response.stats) :
           response.stats[i].team = DocEntries[i].team[1].abbreviation

\* DAL's call returned before PHI's, each with its own document, and the
\* envelope lists PHI first.
C7_Witness ==
    /\ Succeeded
    /\ settleOrder = <<2, 1>>
    /\ response.stats[1].team = "PHI"
    /\ response.stats[2].team = "DAL"
    /\ statsData[1] = <<"full">>
    /\ statsData[2] = <<"wrapped">>
    /\ response.stats[1].yardsAllowed = 3188
    /\ response.stats[2].yardsAllowed = 3500

\* C8, as claimed: a team whose enrichment failed or threw at any step has
\* yards, pass yards, rush yards, sacks, interceptions and fumbles all 0.
C8_FailedEnrichmentAllDefaults ==
    Succeeded =>
      \A i \in 1..Len(response.stats) :
        EnrichmentFailed(i) => ZeroEnrichment(response.stats[i])

\* C9, as claimed: no two records of a success envelope share a team code, and
\* there is exactly one record per team of the standings document.
C9_UniqueTeamCodes ==
    Succeeded =>
      LET codes == {DocEntries[i].team[1].abbreviation : i \in 1..Len(DocEntries)}
      IN  /\ \A i, j \in 1..Len(response.stats) :
               i # j => response.stats[i].team # response.stats[j].team
          /\ {response.stats[i].team : i \in 1..Len(response.stats)} = codes
          /\ Len(response.stats) = Cardinality(codes)

(***************************************************************************)
(* Claims about getStat, checked under SpecGetStat.                        *)
(***************************************************************************)
\* Entry st matches candidate key n on its name, abbreviation or type.
Matches(st, n) == st.name = n \/ st.abbreviation = n \/ st.type = n

\* C10: getStat returns the number of the first entry (in array order)
\* matched by the first candidate key (in list order) that matches any entry,
\* whatever the array order of the entries other candidates match; it returns
\* 0 when no candidate matches.  The number of an entry is its value, or its
\* parsed displayValue when the value is missing or 0.
C10_FirstCandidateWins ==
    gsDone =>
      LET K == {k \in 1..Len(gsNames) :
                  \E j \in 1..Len(gsStats) : Matches(gsStats[j], gsNames[k])}
      IN  IF K = {} THEN gsResult = 0
          ELSE LET k == CHOOSE k \in K : \A l \in K : k <= l
                   J == {j \in 1..Len(gsStats) : Matches(gsStats[j], gsNames[k])}
                   st == gsStats[CHOOSE j \in J : \A l \in J : j <= l]
               IN  /\ gsResult = StatNumber(st)
                   /\ (st.value # Missing /\ st.value[1] # 0) => gsResult = st.value[1]

\* Candidates [totalPointsAgainst, pointsAgainst] over an array that holds
\* only pointsAgainst = 310 resolve to 310.
C10_Witness ==
    /\ gsDone
    /\ gsNames = <<"totalPointsAgainst", "pointsAgainst">>
    /\ Len(gsStats) = 1
    /\ gsStats[1].name = "pointsAgainst"
    /\ gsResult = 310

\* Entry st holds no number: its value is missing (or 0) and its displayValue
\* does not parse to a non-zero number.
NoNumber(st) == StatNumber(st) = 0

\* The entry candidate key n resolves to: the first entry of the array it matches.
FirstMatch(n) ==
    LET J == {j \in 1..Len(gsStats) : Matches(gsStats[j], n)}
    IN  gsStats[CHOOSE j \in J : \A l \in J : j <= l]

\* C11: the candidate list resolves to the first non-missing value: when the
\* first candidate key that matches an entry matches one that holds no number
\* and a later candidate key matches an entry that holds the number v, getStat
\* returns v rather than 0.
C11_FirstNonMissingValue ==
    gsDone =>
      \A k, l \in 1..Len(gsNames) :
        (/\ k < l
         /\ \A h \in 1..(k - 1) :
              \A j \in 1..Len(gsStats) : ~Matches(gsStats[j], gsNames[h])
         /\ \E j \in 1..Len(gsStats) : Matches(gsStats[j], gsNames[k])
         /\ NoNumber(FirstMatch(gsNames[k]))
         /\ \A h \in (k + 1)..(l - 1) :
              \A j \in 1..Len(gsStats) : ~Matches(gsStats[j], gsNames[h])
         /\ \E j \in 1..Len(gsStats) : Matches(gsStats[j], gsNames[l])
         /\ ~NoNumber(FirstMatch(gsNames[l])))
        => gsResult = StatNumber(FirstMatch(gsNames[l]))

(***************************************************************************)
(* Claims about the per-game derivation, checked under Spec.               *)
(***************************************************************************)
\* r tenths is total / g rounded to one decimal, a half rounding up.
IsRounded(r, total, g) ==
    /\ 2 * g * r <= 20 * total + g
    /\ 20 * total + g < 2 * g * (r + 1)

\* The season totals of the standings entries and of the opponent categories
\* of the statistics documents, as the documents state them.
PointsTotal(abbr) == IF abbr = "PHI" THEN 324 ELSE 340
OpponentTotals(doc) ==
    CASE doc = "full" -> [yards |-> 5100, pass |-> 3400, rush |-> 1700]
      [] doc = "wrapped" -> [yards |-> 5950, pass |-> 0, rush |-> 0]
      [] OTHER -> [yards |-> 0, pass |-> 0, rush |-> 0]

\* C12: with G > 0 games played, pointsAllowed is the season total of points
\* allowed divided by G and rounded to one decimal (340 over 17 games is 20.0),
\* and yardsAllowed, passYardsAllowed and rushYardsAllowed of an enriched team
\* are the opponent season totals divided by the same G, rounded the same way.
C12_PerGameRounded ==
    Succeeded =>
      \A i \in 1..Len(response.stats) :
        LET r == response.stats[i]
            g == teams[i].gamesPlayed
            t == OpponentTotals(statsData[i][1])
        IN  /\ g > 0
            /\ IsRounded(r.pointsAllowed, PointsTotal(r.team), g)
            /\ (PointsTotal(r.team) = 340 /\ g = 17) => r.pointsAllowed = 200
            /\ outcome[i] = "enriched" =>
                 /\ IsRounded(r.yardsAllowed, t.yards, g)
                 /\ IsRounded(r.passYardsAllowed, t.pass, g)
                 /\ IsRounded(r.rushYardsAllowed, t.rush, g)

\* DAL, 340 points over 17 games, has 20.0; PHI, 324 points and 5100 / 3400 /
\* 1700 yards over 16 games, has 20.3 and 318.8 / 212.5 / 106.3.
C12_Witness ==
    /\ Succeeded
    /\ Len(response.stats) = 2
    /\ response.stats[1].team = "DAL"
    /\ response.stats[1].pointsAllowed = 200
    /\ response.stats[2].team = "PHI"
    /\ outcome[2] = "enriched"
    /\ statsData[2] = <<"full">>
    /\ response.stats[2].pointsAllowed = 203
    /\ response.stats[2].yardsAllowed = 3188
    /\ response.stats[2].passYardsAllowed = 2125
    /\ response.stats[2].rushYardsAllowed = 1063

\* C13: gamesPlayed is wins + losses of the standings entry (16 for PHI) and
\* 17 when they are unobtainable (DAL); it is never 0, so every per-game field
\* is the quotient and never the 0 of the gamesPlayed <= 0 branch.
C13_GamesPlayed ==
    \A i \in 1..Len(teams) :
      /\ teams[i].gamesPlayed = (IF teams[i].abbr = "PHI" THEN 10 + 6 ELSE 17)
      /\ teams[i].gamesPlayed > 0
      /\ base[i].pointsAllowed > 0
      /\ IsRounded(base[i].pointsAllowed, PointsTotal(teams[i].abbr),
                   teams[i].gamesPlayed)

\* The standings list DAL, whose wins and losses are unobtainable, and PHI.
C13_Witness ==
    /\ Len(teams) = 2
    /\ teams[1].abbr = "DAL"
    /\ teams[1].gamesPlayed = 17
    /\ teams[2].abbr = "PHI"
    /\ teams[2].gamesPlayed = 16
    /\ base[1].pointsAllowed = 200

(***************************************************************************)
(* Claims about missing values, checked under Spec.                        *)
(***************************************************************************)
NumericFields ==
    {"pointsAllowed", "yardsAllowed", "passYardsAllowed", "rushYardsAllowed",
     "sacks", "interceptions", "fumbles", "dvoa"}

EqualBut(i, j, m) == \A x \in Metrics \ {m} : batch[i][x] = batch[j][x]

\* C15: in a scored batch, of two teams equal on four of the five scored
\* metrics the one with fewer points (or yards) allowed, or with more sacks
\* (or interceptions, or fumbles), has a dvoa at least as high.
C15_Monotone ==
    scored =>
      \A i, j \in 1..Len(batch) :
        /\ \A m \in {"pointsAllowed", "yardsAllowed"} :
             (EqualBut(i, j, m) /\ batch[i][m] < batch[j][m])
               => batch[i].dvoa >= batch[j].dvoa
        /\ \A m \in {"sacks", "interceptions", "fumbles"} :
             (EqualBut(i, j, m) /\ batch[i][m] > batch[j][m])
               => batch[i].dvoa >= batch[j].dvoa

\* Two teams that differ in sacks alone: 3 sacks score 20.0 above 1 sack.
C15_Witness ==
    /\ scored
    /\ Len(batch) = 2
    /\ EqualBut(1, 2, "sacks")
    /\ batch[1].sacks = 3
    /\ batch[2].sacks = 1
    /\ batch[1].dvoa = batch[2].dvoa + 200

(***************************************************************************)
(* Claims about the number of fetches, checked under Spec.                 *)
(***************************************************************************)
\* C16: in one request the standings document is fetched exactly once (once
\* the handler has started) and the statistics document of a team at most
\* once: exactly once for every standings team when the standings fetch gave
\* a non-empty team list, never otherwise, and not again after a fetch failed.
C16_NoRefetch ==
    /\ standingsFetches = (IF pc = "start" THEN 0 ELSE 1)
    /\ Len(statsFetches) = Len(teams)
    /\ \A i \in 1..Len(statsFetches) : statsFetches[i] = 1
    /\ fetchCount = Len(teams)
    /\ (pc = "done" /\ response.status = 500) => statsFetches = <<>>
    /\ Succeeded => Len(statsFetches) = Len(DocEntries)

\* The statistics fetch of the first team threw and that of the second gave
\* a non-success status; the request is over.
C16_Witness ==
    /\ Succeeded
    /\ Len(teams) = 2
    /\ outcome[1] = "fetchThrew"
    /\ outcome[2] = "notOk"
    /\ standingsFetches = 1
    /\ statsFetches = <<1, 1>>

(***************************************************************************)
(* Claims about the client store, checked under SpecClient.                *)
(***************************************************************************)
\* The standings fetch succeeded and the document lists at least one team,
\* every entry with its team object.
PrimaryOk ==
    /\ standingsRes = "ok"
    /\ standingsData # <<>>
    /\ DocEntries # <<>>
    /\ \A i \in 1..Len(DocEntries) : DocEntries[i].team # Missing

\* C17: once the fetch has settled, error is set only when the call of
\* /api/nfl-stats failed or the standings source failed or listed no team;
\* when the standings succeeded with teams, however the per-team enrichments
\* went, error is null and defenseData holds one record per standings team.
C17_OnlyPrimaryFailureSurfaces ==
    cpc = "settled" =>
      /\ nflStats.error # Null => (pc = "start" \/ ~PrimaryOk)
      /\ (pc = "done" /\ PrimaryOk) =>
           /\ nflStats.error = Null
           /\ ~nflStats.loading
           /\ Len(nflStats.defenseData) = Len(DocEntries)
           /\ \A i \in 1..Len(DocEntries) :
                nflStats.defenseData[i].team = DocEntries[i].team[1].abbreviation

\* Both enrichments failed, one at the fetch and one during extraction, and
\* the store holds both records without an error.
C17_Witness ==
    /\ cpc = "settled"
    /\ PrimaryOk
    /\ outcome = <<"fetchThrew", "extractThrew">>
    /\ nflStats.error = Null
    /\ Len(nflStats.defenseData) = 2
    /\ nflStats.team1 = nflStats.defenseData[1].team

\* C18: a dispatch sets loading and clears error before the request runs; the
\* request of a retry starts a new invocation of GET that has fetched nothing
\* and holds no team or record, while the store holds no record either; when
\* the retry succeeds the standings and every team's statistics have been
\* fetched in that invocation and defenseData is its list.
C18_RetryFromScratch ==
    /\ cpc = "waiting" => (nflStats.loading /\ nflStats.error = Null)
    /\ (retried /\ cpc = "waiting") => nflStats.defenseData = <<>>
    /\ (retried /\ cpc = "waiting" /\ pc = "start") =>
         /\ standingsFetches = 0
         /\ statsFetches = <<>>
         /\ teams = <<>>
         /\ base = <<>>
         /\ detailedStats = <<>>
         /\ response = NoResponse
    /\ (retried /\ cpc = "settled" /\ Succeeded) =>
         /\ standingsFetches = 1
         /\ Len(statsFetches) = Len(DocEntries)
         /\ \A i \in 1..Len(statsFetches) : statsFetches[i] = 1
         /\ nflStats.defenseData = response.stats
         /\ nflStats.error = Null
         /\ ~nflStats.loading

\* Try Again was clicked and the new run loaded two teams.
C18_Witness ==
    /\ retried
    /\ cpc = "settled"
    /\ Succeeded
    /\ Len(nflStats.defenseData) = 2
    /\ nflStats.error = Null
    /\ nflStats.team1 = "DAL"
    /\ nflStats.team2 = "PHI"

(***************************************************************************)
(* Claims about overlapping requests, checked under SpecStore.             *)
(***************************************************************************)
\* C19, as claimed: loading is true exactly while at least one dispatched
\* request has not settled.
C19_LoadingWhileInFlight == nflStats.loading <=> inFlight # {}

\* C20, as claimed: once every dispatched request has settled, error is null
\* whenever the request that settled last was fulfilled.
C20_NoStaleError ==
    (dispatched > 0 /\ inFlight = {} /\ lastSettled = "fulfilled")
      => nflStats.error = Null

(***************************************************************************)
(* Claims about the responses of GET, checked under Spec.                  *)
(***************************************************************************)
\* The standings fetch, its JSON parsing or the extraction threw.
PrimaryThrew ==
    \/ standingsRes \in {"throws", "badJson"}
    \/ /\ standingsData # <<>>
       /\ ~extractTeamsFromStandings(StandingsDoc(standingsData[1])).ok

\* C21: GET has a response exactly when it has returned, and every response is
\* the 500 or the 200 envelope; when the standings fetch, its JSON parsing or
\* the extraction throws, the response is 500 with an error and stats = [];
\* every 200 response carries a non-empty stats list, lastUpdated and source.
C21_AlwaysOneResponse ==
    /\ (response # NoResponse) <=> (pc = "done")
    /\ pc = "done" => response.status \in {200, 500}
    /\ (pc # "start" /\ PrimaryThrew) =>
         /\ pc = "done"
         /\ response.status = 500
         /\ response.error # ""
         /\ response.stats = <<>>
    /\ response.status = 500 => (response.error # "" /\ response.stats = <<>>)
    /\ response.status = 200 =>
         /\ response.stats # <<>>
         /\ response.lastUpdated
         /\ response.source # ""
         /\ response.error = ""

\* The standings document parsed and the extraction threw on it: the request
\* ended with the 500 response.
C21_Witness ==
    /\ pc = "done"
    /\ standingsRes = "ok"
    /\ standingsData # <<>>
    /\ ~extractTeamsFromStandings(StandingsDoc(standingsData[1])).ok
    /\ response = ErrorResponse("Failed to fetch NFL statistics")

(***************************************************************************)
(* Termination, checked under SpecClientLive.                              *)
(***************************************************************************)
\* C22: when every issued fetch settles, every invocation of GET returns a
\* response, whichever per-team fetches fail, and every dispatched
\* fetchNFLStats settles, after which loading is false.
C22_EveryRequestEnds ==
    /\ (pc = "awaitStandings") ~> (pc = "done")
    /\ (cpc = "waiting") ~> (cpc = "settled" /\ ~nflStats.loading)
    /\ nflStats.loading ~> ~nflStats.loading

\* The thunk has settled on a response of GET in which the only per-team
\* fetch threw.
C22_Witness ==
    /\ cpc = "settled"
    /\ pc = "done"
    /\ Len(task) > 0
    /\ \A i \in 1..Len(task) : outcome[i] = "fetchThrew"
    /\ response.status = 200
    /\ ~nflStats.loading

(***************************************************************************)
(* Claims about the score of a team without statistics, checked under      *)
(* Spec.                                                                   *)
(***************************************************************************)
\* a <= b for fractions with positive denominators.
FLeq(a, b) == a[1] * b[2] <= b[1] * a[2]

\* The call for team i returned base unchanged.
ReturnedBase(i) == outcome[i] \in {"notOk", "fetchThrew", "jsonThrew"}

\* The term of metric m in the score of record r of the response.
Term(r, m) == contribution(r, m, minMax(vals(response.stats, m)))

\* C23: in a response where some team has yardsAllowed > 0, a team whose
\* enrichment failed has the least yardsAllowed of the batch and the full
\* 25-point yards term, which no team exceeds, so its dvoa is at least 25.0;
\* its sacks, interceptions and fumbles terms are the least of the batch.
C23_FailedTeamYardsTerm ==
    Succeeded =>
      \A i \in 1..Len(response.stats) :
        (/\ ReturnedBase(i)
         /\ \E j \in 1..Len(response.stats) : response.stats[j].yardsAllowed > 0) =>
          LET r == response.stats[i]
          IN  /\ r.yardsAllowed = 0
              /\ \A j \in 1..Len(response.stats) :
                    r.yardsAllowed <= response.stats[j].yardsAllowed
              /\ Term(r, "yardsAllowed") = <<WYards, 1>>
              /\ r.dvoa >= 10 * WYards
              /\ \A j \in 1..Len(response.stats) :
                    /\ FLeq(Term(response.stats[j], "yardsAllowed"), Term(r, "yardsAllowed"))
                    /\ \A m \in {"sacks", "interceptions", "fumbles"} :
                          FLeq(Term(r, m), Term(response.stats[j], m))

\* The fetch of PHI threw and DAL was enriched with yards and sacks: PHI has
\* the full yards term and none of the sacks term.
C23_Witness ==
    /\ Succeeded
    /\ Len(response.stats) = 2
    /\ outcome[1] = "fetchThrew"
    /\ outcome[2] = "enriched"
    /\ response.stats[2].yardsAllowed > 0
    /\ response.stats[2].sacks > 0
    /\ Term(response.stats[1], "yardsAllowed") = <<25, 1>>
    /\ Term(response.stats[2], "yardsAllowed") = <<0, 1>>
    /\ Term(response.stats[1], "sacks") = <<0, 1>>
    /\ response.stats[1].dvoa >= 250

(***************************************************************************)
(* What the scorer writes, checked under Spec.                             *)
(***************************************************************************)
\* C24: until computeEfficiencyRating runs every record has dvoa = 0, and the
\* step in which it runs keeps the number of records, their order and every
\* field but dvoa of every record; the response holds the records it left.
C24_OnlyDvoaChanges ==
    /\ [](scorerRuns = 0 =>
            /\ \A i \in 1..Len(base) : base[i].dvoa = 0
            /\ \A k \in 1..Len(detailedStats) :
                  detailedStats[k] # <<>> => detailedStats[k][1].dvoa = 0)
    /\ [][scorerRuns' # scorerRuns =>
            /\ Len(detailedStats') = Len(detailedStats)
            /\ \A k \in 1..Len(detailedStats) :
                  /\ detailedStats[k][1].dvoa = 0
                  /\ NonDvoa(detailedStats'[k][1]) = detailedStats[k][1]
            /\ response'.stats = [k \in 1..Len(detailedStats) |-> detailedStats'[k][1]]
       ]_vars

\* Two enriched teams were scored: their dvoa differ and are not 0, and every
\* other field is what the team's own call returned.
C24_Witness ==
    /\ Succeeded
    /\ scorerRuns = 1
    /\ Len(response.stats) = 2
    /\ response.stats[1].team # response.stats[2].team
    /\ response.stats[1].dvoa # 0
    /\ response.stats[1].dvoa # response.stats[2].dvoa
    /\ \A k \in 1..2 : NonDvoa(response.stats[k]) = OwnRecord(k)

(***************************************************************************)
(* Order independence of the scorer, checked under SpecOrder.              *)
(***************************************************************************)
\* SpecOrder: the scorer applied to the batches whose sacks are the least or
\* the greatest count.
OrderRecords == {c \in ScoreRecords : c.sacks \in {SetMin(SacksVals), SetMax(SacksVals)}}

AddOrderTeam ==
    /\ ~scored
    /\ Len(batch) < MaxBatch
    /\ \E c \in OrderRecords : batch' = Append(batch, MkRecord(Len(batch) + 1, c))
    /\ UNCHANGED scored
    /\ UNCHANGED notScoreVars

NextOrder == AddOrderTeam \/ ScoreBatch

SpecOrder == InitScore /\ [][NextOrder]_vars

\* The records given to the scorer, before dvoa was written.
Unscored == [i \in 1..Len(batch) |-> NonDvoa(batch[i])]

\* The array with its first two elements exchanged, and the array rotated by
\* one place: every reordering of an array is a composition of these two.
Exchange(ts) ==
    IF Len(ts) < 2 THEN ts
    ELSE [i \in 1..Len(ts) |-> IF i = 1 THEN ts[2] ELSE IF i = 2 THEN ts[1] ELSE ts[i]]
Rotate(ts) == IF Len(ts) = 0 THEN ts ELSE Append(Tail(ts), Head(ts))

\* Scoring the array ts gives each of its records the dvoa it has in batch.
SameDvoa(ts) ==
    \E out \in {computeEfficiencyRating(ts)} :
      \A i \in 1..Len(out) :
        \E j \in 1..Len(batch) :
          /\ NonDvoa(batch[j]) = ts[i]
          /\ batch[j].dvoa = out[i].dvoa

\* The five scored values of a record.
Scored5(r) == <<r.pointsAllowed, r.yardsAllowed, r.sacks, r.interceptions, r.fumbles>>

\* C25: scoring the same records in another order gives every team the dvoa
\* it had (checked for the exchange of the first two records and for the
\* rotation, of every batch), and two records with the same five scored
\* values have the same dvoa.
C25_OrderIndependent ==
    scored =>
      /\ \E u \in {Unscored} : \A ts \in {Exchange(u), Rotate(u)} : SameDvoa(ts)
      /\ \A i, j \in 1..Len(batch) :
            Scored5(batch[i]) = Scored5(batch[j]) => batch[i].dvoa = batch[j].dvoa

\* Two teams with different counters, scored 100 and 0.
C25_Witness ==
    /\ scored
    /\ Len(batch) = MaxBatch
    /\ batch[1].dvoa = 1000
    /\ batch[2].dvoa = 0
    /\ computeEfficiencyRating(Exchange(Unscored))[1].dvoa = 0

(***************************************************************************)
(* Claims about the slice and the selectors, checked under SpecStore.      *)
(***************************************************************************)
\* A request has just been rejected, and one has just been dispatched.
RejectedStep == inFlight' # inFlight /\ lastEvent'.type = "rejected"
PendingStep == dispatched' # dispatched

\* C26: reducing fetchNFLStats.rejected sets loading = false and error to the
\* message of the action and changes nothing else, so loaded data survives;
\* without a payload the error is 'An unknown error occurred'; reducing
\* fetchNFLStats.pending sets loading = true and error = null and changes
\* nothing else.
C26_RejectedAndPendingFrame ==
    /\ [](rejected(nflStats, Missing) =
            [nflStats EXCEPT !.loading = FALSE, !.error = "An unknown error occurred"])
    /\ [][RejectedStep =>
            nflStats' = [nflStats EXCEPT !.loading = FALSE,
                                         !.error = lastEvent'.payload[1]]]_vars
    /\ [][PendingStep =>
            nflStats' = [nflStats EXCEPT !.loading = TRUE, !.error = Null]]_vars

\* A refetch was answered 404 after data had been loaded: the data is still
\* in the store, next to the error.
C26_Witness ==
    /\ lastEvent = Rejected("Failed to fetch: 404")
    /\ nflStats.error = "Failed to fetch: 404"
    /\ ~nflStats.loading
    /\ Len(nflStats.defenseData) = 3
    /\ nflStats.team1 = "NYG"

\* A request has just been fulfilled.
FulfilledStep == inFlight' # inFlight /\ lastEvent'.type = "fulfilled"

\* C27 as stated: right after every fetchNFLStats.fulfilled, team1 is the team
\* of the first record and team2 that of the second, both are in defenseData
\* and the radar data is not empty.
C27_SelectionsFromData ==
    lastEvent.type = "fulfilled" =>
      /\ Len(nflStats.defenseData) >= 2
      /\ nflStats.team1 = nflStats.defenseData[1].team
      /\ nflStats.team2 = nflStats.defenseData[2].team
      /\ {nflStats.team1, nflStats.team2} \subseteq Options
      /\ selectRadarData(nflStats) # <<>>

\* C27, amended: right after a fetchNFLStats.fulfilled whose payload holds at
\* least two records, team1 is the team of the first record and team2 that of
\* the second, both are in defenseData and the radar data is not empty; a
\* payload of fewer records leaves team1 and team2 as they were.
C27_SelectionsFromDataOfTwo ==
    /\ []((lastEvent.type = "fulfilled" /\ Len(nflStats.defenseData) >= 2) =>
            /\ nflStats.team1 = nflStats.defenseData[1].team
            /\ nflStats.team2 = nflStats.defenseData[2].team
            /\ {nflStats.team1, nflStats.team2} \subseteq Options
            /\ selectRadarData(nflStats) # <<>>)
    /\ [][(FulfilledStep /\ Len(nflStats'.defenseData) < 2) =>
            /\ nflStats'.team1 = nflStats.team1
            /\ nflStats'.team2 = nflStats.team2]_vars

\* The list <<DAL, PHI>> was loaded: the selections moved from PHI/DAL to
\* DAL/PHI.
C27_Witness ==
    /\ lastEvent.type = "fulfilled"
    /\ Len(nflStats.defenseData) = 2
    /\ nflStats.team1 = "DAL"
    /\ nflStats.team2 = "PHI"
    /\ Len(selectRadarData(nflStats)) = 5

\* C28: a request is fulfilled only on a success response with a non-empty
\* stats list, which becomes the payload and defenseData; on a response it is
\* rejected with 'Failed to fetch: <status>' when the status is not a
\* success and with 'No data received from API' when stats is missing or
\* empty; and defenseData is never replaced by an empty list.
C28_FulfilledOnlyWithData ==
    /\ [](lastEvent.type = "fulfilled" =>
            /\ response.status \in 200..299
            /\ response.stats # <<>>
            /\ lastEvent.payload = response.stats
            /\ nflStats.defenseData = response.stats)
    /\ []((lastEvent.type = "rejected" /\ response # NoResponse) =>
            \/ /\ response.status \notin 200..299
               /\ lastEvent.payload = <<"Failed to fetch: " \o ToString(response.status)>>
            \/ /\ response.status \in 200..299
               /\ response.stats = <<>>
               /\ lastEvent.payload = <<"No data received from API">>)
    /\ [][nflStats'.defenseData # nflStats.defenseData =>
            nflStats'.defenseData # <<>>]_vars

\* A refetch was answered 200 with an empty stats list after data had been
\* loaded: it was rejected and the loaded list is still in the store.
C28_Witness ==
    /\ response = SuccessResponse(<<>>)
    /\ lastEvent = Rejected("No data received from API")
    /\ nflStats.error = "No data received from API"
    /\ Len(nflStats.defenseData) = 1

\* The number of occurrences of record r in the array arr.
Count(arr, r) == Cardinality({i \in 1..Len(arr) : arr[i] = r})

\* Record a goes before record b in the chart sorted by metric m: a is better,
\* or as good and its team code is not after b's.
BestFirst(a, b, m) ==
    IF m \in {"pointsAllowed", "yardsAllowed"}
    THEN a[m] < b[m] \/ (a[m] = b[m] /\ localeCompare(a.team, b.team) <= 0)
    ELSE a[m] > b[m] \/ (a[m] = b[m] /\ localeCompare(a.team, b.team) <= 0)

\* C29: selectSortedData returns the records of defenseData, each as often as
\* it occurs there, ascending by the metric for pointsAllowed and
\* yardsAllowed and descending for sacks, interceptions and dvoa, ties by
\* team code ascending; a render, which calls it, leaves the store as it was.
C29_SortedBestFirst ==
    /\ [](\E out \in {selectSortedData(nflStats).result} :
            /\ Len(out) = Len(nflStats.defenseData)
            /\ \A i \in 1..Len(out) :
                  Count(out, out[i]) = Count(nflStats.defenseData, out[i])
            /\ \A i, j \in 1..Len(out) :
                  i < j => BestFirst(out[i], out[j], nflStats.selectedMetric))
    /\ [][lastEvent'.type = "render" => nflStats' = nflStats]_vars

\* PHI and NYG have the same counters and more sacks than DAL: sorted by
\* sacks the chart shows NYG, PHI, DAL while the store holds PHI, DAL, NYG.
C29_Witness ==
    /\ lastEvent.type = "render"
    /\ nflStats.selectedMetric = "sacks"
    /\ Len(nflStats.defenseData) = 3
    /\ [i \in 1..3 |-> nflStats.defenseData[i].team] = <<"PHI", "DAL", "NYG">>
    /\ [i \in 1..3 |-> selectSortedData(nflStats).result[i].team] = <<"NYG", "PHI", "DAL">>
    /\ nflStats.defenseData[1].sacks = nflStats.defenseData[3].sacks

\* The fields of the radar rows, in row order, and whether lower is better.
RadarFields == <<"pointsAllowed", "yardsAllowed", "sacks", "interceptions", "fumbles">>
LowerIsBetter(f) == f \in {"pointsAllowed", "yardsAllowed"}

\* C30: selectRadarData returns no row when team1 or team2 is not in
\* defenseData; otherwise it returns the five rows, whose values for both
\* teams are integers from 0 to 100, also when the greatest value of a metric
\* is 0, and the team with the lower points or yards allowed, or with the
\* higher sacks, interceptions or fumbles, never has the lower value.
C30_RadarInRange ==
    \E rows \in {selectRadarData(nflStats)} :
      IF ~({nflStats.team1, nflStats.team2} \subseteq Options)
      THEN rows = <<>>
      ELSE LET t1 == nflStats.defenseData[find(nflStats.defenseData, nflStats.team1)]
               t2 == nflStats.defenseData[find(nflStats.defenseData, nflStats.team2)]
           IN  /\ Len(rows) = Len(RadarFields)
               /\ \A k \in 1..Len(rows) :
                     LET f == RadarFields[k]
                     IN  /\ rows[k].team1 \in 0..100
                         /\ rows[k].team2 \in 0..100
                         /\ rows[k].fullMark = 100
                         /\ IF LowerIsBetter(f)
                            THEN /\ t1[f] <= t2[f] => rows[k].team1 >= rows[k].team2
                                 /\ t1[f] >= t2[f] => rows[k].team1 <= rows[k].team2
                            ELSE /\ t1[f] >= t2[f] => rows[k].team1 >= rows[k].team2
                                 /\ t1[f] <= t2[f] => rows[k].team1 <= rows[k].team2

\* DAL (20.0 points allowed) against PHI (20.3), neither with statistics: the
\* greatest yards and sacks are 0, the yards row shows 100 for both and the
\* sacks row 0; the points row shows 1 for DAL and 0 for PHI.
C30_Witness ==
    /\ nflStats.team1 = "DAL"
    /\ nflStats.team2 = "PHI"
    /\ Len(nflStats.defenseData) = 2
    /\ \A i \in 1..2 : nflStats.defenseData[i].yardsAllowed = 0
    /\ \A i \in 1..2 : nflStats.defenseData[i].sacks = 0
    /\ Len(selectRadarData(nflStats)) = 5
    /\ selectRadarData(nflStats)[1].team1 = 1
    /\ selectRadarData(nflStats)[1].team2 = 0
    /\ selectRadarData(nflStats)[2].team1 = 100
    /\ selectRadarData(nflStats)[2].team2 = 100
    /\ selectRadarData(nflStats)[3].team1 = 0

====
